---- MODULE Spec2Model ----
(***************************************************************************)
(* State-machine model of the remotely controllable 3D scene viewer        *)
(* (Application, CameraController, SceneManager, AreaLight,                *)
(* InteractionModeManager, CoordinateSystem).                              *)
(*                                                                         *)
(* Numbers are fixed point:                                                *)
(*   camera distance, light distance    hundredths of a scene unit         *)
(*   camera zoom ("FOV" scale)          hundredths                         *)
(*   azimuth, elevation                 tenths of a degree                 *)
(*   rig rotation (parentGroup)         micro-radians                      *)
(*   pointer coordinates, pinch span    pixels                             *)
(* The camera is created unrotated and only its position.z and zoom ever   *)
(* change, so camera forward is -Z and camera right is +X throughout.      *)
(* A light's pivot-relative Cartesian position is kept in polar form       *)
(* [az, el, r] of that fixed basis: r is its length, el the angle of the   *)
(* vector above the horizontal plane (-900..900), az the clockwise angle   *)
(* of its horizontal part from -Z (0..3599).  The vector at a pole or at   *)
(* the pivot has no horizontal part and is stored with az = 0.             *)
(***************************************************************************)
EXTENDS Integers, Sequences, FiniteSets, TLC

(***************************************************************************)
(* CONFIG (constants.js)                                                   *)
(***************************************************************************)
INITIAL_DISTANCE == 3200
MIN_DISTANCE == 800
MAX_DISTANCE == 6400
FOV_MIN == 50
FOV_MAX == 500
DOLLY_SPEED == 10
FOV_SPEED == 2
PINCH_ZOOM_SENSITIVITY == 1
AREA_LIGHT_ROTATION_SENSITIVITY == 5000
AREA_LIGHT_DOLLY_SENSITIVITY == 10
AREA_LIGHT_SWING_AMOUNT == 10
AREA_LIGHT_WALK_AMOUNT == 100
MODEL_SIZE == 1
SNOW == 16777215

(***************************************************************************)
(* Bounds of the model                                                     *)
(***************************************************************************)
MaxPointerEvents == 5
MaxCommands == 2
MaxCameraEvents == 4
MaxLightEvents == 3
MaxLightOps == 2
MaxStartupCalls == 2
MaxEventsAfterInit == 2

VARIABLES
  currentMode,                 \* InteractionModeManager.currentMode
  currentHoveredAreaLight,     \* Application.currentHoveredAreaLight: "none", "key", "fill"
  isAreaLightDragging,         \* Application.isAreaLightDragging
  areaLightDragStartPosition,  \* Application.areaLightDragStartPosition <<x, y>>
  highlighted,                 \* AreaLight.highlightOverlay.visible, per light
  rotationController,          \* [isDragging, anchor]
  model,                       \* [color, scale, rotation]
  background,                  \* scene.background: -1 while unset, else 24-bit colour
  lights,                      \* "key"/"fill" -> [intensity, color, width, height, rotX, rotY, pos, aim]
  camera,                      \* [distance, zoom, initialPinchDistance, initialCameraDistance]
  wsClient,                    \* TRUE iff a WebSocketClient was created (sessionId present)
  connected,                   \* wsClient.isConnected()
  sentCount,                   \* number of stateUpdate messages handed to the channel
  lastSent,                    \* the snapshot of the last stateUpdate, or NoSnapshot
  steps,                       \* events still to be handled (bounds the exploration)
  lastEvent,                   \* what the most recent handler did (observer)
  dragLight,                   \* light hovered at the press that started the running light drag (observer)
  expected,                    \* mutating commands dispatched while the channel was open (observer)
  ready,                       \* the references of the SceneManager that are set so far
  underPointer,                \* the light whose pick proxy the ray through the pointer hits now
  app                          \* how far Application.init has come, and what it has started

vars == <<currentMode, currentHoveredAreaLight, isAreaLightDragging,
          areaLightDragStartPosition, highlighted, rotationController, model,
          background, lights, camera, wsClient, connected, sentCount, lastSent,
          steps, lastEvent, dragLight, expected, ready, underPointer, app>>

interactionVars == <<currentMode, currentHoveredAreaLight, isAreaLightDragging,
                     areaLightDragStartPosition, highlighted>>
sceneVars == <<model, background, lights, camera>>
channelVars == <<wsClient, connected, sentCount, lastSent, expected>>

(***************************************************************************)
(* InteractionModeManager                                                  *)
(***************************************************************************)
MODEL_ROTATION == "MODEL_ROTATION"
AREA_LIGHT_MANIPULATION == "AREA_LIGHT_MANIPULATION"

\* setMode(mode): only the two known modes are accepted
setMode(cur, mode) ==
  IF mode = MODEL_ROTATION \/ mode = AREA_LIGHT_MANIPULATION THEN mode ELSE cur

isModelRotationMode == currentMode = MODEL_ROTATION
isAreaLightMode == currentMode = AREA_LIGHT_MANIPULATION

LightNames == {"key", "fill"}
PickResults == {"none", "key", "fill"}

(***************************************************************************)
(* Values carried by command payloads: a number, a string (a sequence of   *)
(* one-character strings) or a missing field (undefined).                  *)
(***************************************************************************)
Num(n) == [t |-> "num", n |-> n]
Str(s) == [t |-> "str", s |-> s]
Undefined == [t |-> "undef"]

\* JavaScript's % : the result takes the sign of the dividend
JsRem(a, b) == IF a >= 0 THEN a % b ELSE -((-a) % b)

(***************************************************************************)
(* CoordinateSystem.js                                                     *)
(***************************************************************************)
UpperCase == <<"A","B","C","D","E","F","G","H","I","J","K","L","M",
               "N","O","P","Q","R","S","T","U","V","W","X","Y","Z">>
LowerCase == <<"a","b","c","d","e","f","g","h","i","j","k","l","m",
               "n","o","p","q","r","s","t","u","v","w","x","y","z">>

\* String.prototype.toLowerCase on one character
toLowerCase(c) ==
  IF \E i \in 1..26 : UpperCase[i] = c
  THEN LowerCase[CHOOSE i \in 1..26 : UpperCase[i] = c]
  ELSE c

RECURSIVE trimLeft(_)
trimLeft(s) == IF s # <<>> /\ Head(s) = " " THEN trimLeft(Tail(s)) ELSE s

RECURSIVE trimRight(_)
trimRight(s) ==
  IF s # <<>> /\ s[Len(s)] = " " THEN trimRight(SubSeq(s, 1, Len(s) - 1)) ELSE s

\* faulty variant: hyphens are kept
normalizeDirectionName_KeepsHyphens(s) ==
  IF s = <<>> THEN <<>>
  ELSE LET lower == [i \in 1..Len(s) |-> toLowerCase(s[i])]
           trimmed == trimRight(trimLeft(lower))
       IN SelectSeq(trimmed, LAMBDA c : c \notin {" ", "."})

\* normalizeDirectionName: lowercase, trim, then drop whitespace, hyphens and periods.
\* An empty argument gives null; null and the empty string are both falsy for the
\* caller and neither is a key of the map, so both are the empty sequence here.
normalizeDirectionName(s) ==
  IF s = <<>> THEN <<>>
  ELSE LET lower == [i \in 1..Len(s) |-> toLowerCase(s[i])]
           trimmed == trimRight(trimLeft(lower))
       IN SelectSeq(trimmed, LAMBDA c : c \notin {" ", "-", "."})

\* the directionToAzimuth map, azimuths in tenths of a degree
directionToAzimuth ==
  << <<(<<"n","o","r","t","h">>), 0>>,
     <<(<<"e","a","s","t">>), 900>>,
     <<(<<"s","o","u","t","h">>), 1800>>,
     <<(<<"w","e","s","t">>), 2700>>,
     <<(<<"n","o","r","t","h","e","a","s","t">>), 450>>,
     <<(<<"n","o","r","t","h","w","e","s","t">>), 3150>>,
     <<(<<"s","o","u","t","h","e","a","s","t">>), 1350>>,
     <<(<<"s","o","u","t","h","w","e","s","t">>), 2250>>,
     <<(<<"n">>), 0>>,
     <<(<<"e">>), 900>>,
     <<(<<"s">>), 1800>>,
     <<(<<"w">>), 2700>>,
     <<(<<"n","e">>), 450>>,
     <<(<<"n","w">>), 3150>>,
     <<(<<"s","e">>), 1350>>,
     <<(<<"s","w">>), 2250>>,
     <<(<<"n","n","e">>), 225>>,
     <<(<<"e","n","e">>), 675>>,
     <<(<<"e","s","e">>), 1125>>,
     <<(<<"s","s","e">>), 1575>>,
     <<(<<"s","s","w">>), 2025>>,
     <<(<<"w","s","w">>), 2475>>,
     <<(<<"w","n","w">>), 2925>>,
     <<(<<"n","n","w">>), 3375>> >>

Null == [t |-> "null"]

\* faulty variant: the remainder of a negative number is returned as it is
directionToAzimuthAngle_RemainderOnly(direction) ==
  IF direction.t = "num"
  THEN Num(JsRem(direction.n, 3600))
  ELSE IF direction.t = "str"
  THEN LET normalized == normalizeDirectionName(direction.s)
       IN IF \E i \in 1..Len(directionToAzimuth) : directionToAzimuth[i][1] = normalized
          THEN Num(directionToAzimuth[
                 CHOOSE i \in 1..Len(directionToAzimuth) :
                   directionToAzimuth[i][1] = normalized][2])
          ELSE Null
  ELSE Null

\* directionToAzimuthAngle(direction): a number is normalised into [0,360),
\* a string is looked up after normalisation, anything else gives null
directionToAzimuthAngle_NorthForUnknown(direction) ==
  IF direction.t = "num"
  THEN LET azimuth == JsRem(direction.n, 3600)
       IN Num(IF azimuth < 0 THEN azimuth + 3600 ELSE azimuth)
  ELSE IF direction.t = "str"
  THEN LET normalized == normalizeDirectionName(direction.s)
       IN IF \E i \in 1..Len(directionToAzimuth) : directionToAzimuth[i][1] = normalized
          THEN Num(directionToAzimuth[
                 CHOOSE i \in 1..Len(directionToAzimuth) :
                   directionToAzimuth[i][1] = normalized][2])
          ELSE Num(0)
  ELSE Null

directionToAzimuthAngle(direction) ==
  IF direction.t = "num"
  THEN LET azimuth == JsRem(direction.n, 3600)
       IN Num(IF azimuth < 0 THEN azimuth + 3600 ELSE azimuth)
  ELSE IF direction.t = "str"
  THEN LET normalized == normalizeDirectionName(direction.s)
       IN IF \E i \in 1..Len(directionToAzimuth) : directionToAzimuth[i][1] = normalized
          THEN Num(directionToAzimuth[
                 CHOOSE i \in 1..Len(directionToAzimuth) :
                   directionToAzimuth[i][1] = normalized][2])
          ELSE Null
  ELSE Null

\* The pivot-relative vector  d * normalize(cos(e) * H(a) + sin(e) * up)  in polar
\* form, H(a) the horizontal unit vector at azimuth a: the elevation is folded
\* into [-90,90] (beyond the pole the horizontal part points the other way), a
\* negative d mirrors the vector through the pivot, and a vector without a
\* horizontal part, or of length 0, has azimuth 0.
Polar(a, e, d) ==
  LET e1 == e % 3600
      a0 == a % 3600
      cosSign == IF e1 < 900 \/ e1 > 2700 THEN 1
                 ELSE IF e1 = 900 \/ e1 = 2700 THEN 0 ELSE -1
      el == IF e1 <= 900 THEN e1
            ELSE IF e1 >= 2700 THEN e1 - 3600
            ELSE 1800 - e1
      az == IF cosSign = 0 THEN 0
            ELSE IF cosSign = 1 THEN a0 ELSE (a0 + 1800) % 3600
  IN IF d = 0 THEN [az |-> 0, el |-> 0, r |-> 0]
     ELSE IF d > 0 THEN [az |-> az, el |-> el, r |-> d]
     ELSE [az |-> IF cosSign = 0 THEN 0 ELSE (az + 1800) % 3600, el |-> -el, r |-> -d]

sphericalToCartesian_Anticlockwise(azimuth, elevation, distance) ==
  LET azimuthAngle == directionToAzimuthAngle(azimuth)
  IN IF azimuthAngle = Null
     THEN [threw |-> TRUE, v |-> [az |-> 0, el |-> 0, r |-> 0]]
     ELSE [threw |-> FALSE, v |-> Polar(3600 - azimuthAngle.n, elevation, distance)]

\* sphericalToCartesian(azimuth, elevation, distance, camera): throws on an
\* azimuth that directionToAzimuthAngle rejects
sphericalToCartesian(azimuth, elevation, distance) ==
  LET azimuthAngle == directionToAzimuthAngle(azimuth)
  IN IF azimuthAngle = Null
     THEN [threw |-> TRUE, v |-> [az |-> 0, el |-> 0, r |-> 0]]
     ELSE [threw |-> FALSE, v |-> Polar(azimuthAngle.n, elevation, distance)]

\* cartesianToSpherical(x, y, z, camera): {0,0,0} at the pivot, azimuth 0 when
\* the direction is vertical
cartesianToSpherical(v) ==
  IF v.r = 0 THEN [azimuth |-> 0, elevation |-> 0, distance |-> 0]
  ELSE IF v.el = 900 \/ v.el = -900
  THEN [azimuth |-> 0, elevation |-> v.el, distance |-> v.r]
  ELSE [azimuth |-> v.az, elevation |-> v.el, distance |-> v.r]

(***************************************************************************)
(* AreaLight.js: operations on one light record                            *)
(*   [intensity, color, width, height, rotX, rotY, pos, aim]               *)
(* rotX, rotY are parentGroup.rotation, pos is areaLight.position, aim is  *)
(* the pose (rig rotation and position) the light had when it was last     *)
(* oriented at its target.                                                 *)
(* Each operation that can throw returns [threw, light].                   *)
(***************************************************************************)
Min(a, b) == IF a <= b THEN a ELSE b
Max(a, b) == IF a >= b THEN a ELSE b
Abs(a) == IF a >= 0 THEN a ELSE -a
Sign(a) == IF a > 0 THEN 1 ELSE IF a < 0 THEN -1 ELSE 0

\* the pose of a light: rig rotation and local position
pose(light) == <<light.rotX, light.rotY, light.pos>>

\* areaLight.lookAt(target): orients the light at its target from where it stands
lookAt(light) == [light EXCEPT !.aim = pose(light)]

\* faulty variant: the turn is also applied to the local position, as a step of
\* ten degrees in azimuth
AreaLight_rotate_MovesLocalPosition(light, deltaX, deltaY) ==
  lookAt([light EXCEPT !.rotY = @ + deltaX, !.rotX = @ + deltaY,
                       !.pos = Polar(@.az + 100, @.el, @.r)])

\* rotate(deltaX, deltaY): turns the rig frame, the local position is untouched
AreaLight_rotate(light, deltaX, deltaY) ==
  lookAt([light EXCEPT !.rotY = @ + deltaX, !.rotX = @ + deltaY])

AreaLight_dolly_NoLookAt(light, delta) ==
  LET currentDistance == light.pos.r
      dir == IF currentDistance > 0 THEN light.pos ELSE [az |-> 1800, el |-> 0, r |-> 0]
  IN [light EXCEPT !.pos = Polar(dir.az, dir.el, currentDistance + delta)]

\* dolly(delta): along the radial direction, (0,0,1) when the light sits on the pivot
AreaLight_dolly(light, delta) ==
  LET currentDistance == light.pos.r
      dir == IF currentDistance > 0 THEN light.pos ELSE [az |-> 1800, el |-> 0, r |-> 0]
  IN lookAt([light EXCEPT !.pos = Polar(dir.az, dir.el, currentDistance + delta)])

\* getPositionSpherical(camera)
AreaLight_getPositionSpherical(light) == cartesianToSpherical(light.pos)

AreaLight_setPositionSpherical_UnitDistance(light, azimuth, elevation) ==
  LET cartesian == sphericalToCartesian(azimuth, elevation, 100)
  IN IF cartesian.threw THEN [threw |-> TRUE, light |-> light]
     ELSE [threw |-> FALSE, light |-> lookAt([light EXCEPT !.pos = cartesian.v])]

\* setPositionSpherical(azimuth, elevation, camera): keeps the current distance
\* (1.0 when on the pivot); the position is written only if the conversion returned
AreaLight_setPositionSpherical(light, azimuth, elevation) ==
  LET currentDistance == light.pos.r
      distance == IF currentDistance > 0 THEN currentDistance ELSE 100
      cartesian == sphericalToCartesian(azimuth, elevation, distance)
  IN IF cartesian.threw THEN [threw |-> TRUE, light |-> light]
     ELSE [threw |-> FALSE, light |-> lookAt([light EXCEPT !.pos = cartesian.v])]

AreaLight_rotateClockwise(light, degrees) ==
  LET current == AreaLight_getPositionSpherical(light)
      newAzimuth == JsRem(current.azimuth - degrees + 3600, 3600)
  IN AreaLight_setPositionSpherical(light, Num(newAzimuth), current.elevation)

AreaLight_rotateCounterclockwise(light, degrees) ==
  LET current == AreaLight_getPositionSpherical(light)
      newAzimuth == JsRem(current.azimuth + degrees, 3600)
  IN AreaLight_setPositionSpherical(light, Num(newAzimuth), current.elevation)

AreaLight_nudgeElevationUp_NoClamp(light, degrees) ==
  LET current == AreaLight_getPositionSpherical(light)
      newElevation == current.elevation + degrees
  IN AreaLight_setPositionSpherical(light, Num(current.azimuth), newElevation)

AreaLight_nudgeElevationUp(light, degrees) ==
  LET current == AreaLight_getPositionSpherical(light)
      newElevation == Min(900, current.elevation + degrees)
  IN AreaLight_setPositionSpherical(light, Num(current.azimuth), newElevation)

AreaLight_nudgeElevationDown(light, degrees) ==
  LET current == AreaLight_getPositionSpherical(light)
      newElevation == Max(0, current.elevation - degrees)
  IN AreaLight_setPositionSpherical(light, Num(current.azimuth), newElevation)

Digits == <<"0","1","2","3","4","5","6","7","8","9">>
IsDigit(c) == \E i \in 1..10 : Digits[i] = c
DigitValue(c) == (CHOOSE i \in 1..10 : Digits[i] = c) - 1

RECURSIVE leadingDigits(_, _)
leadingDigits(s, acc) ==
  IF s # <<>> /\ IsDigit(Head(s))
  THEN leadingDigits(Tail(s), acc * 10 + DigitValue(Head(s)))
  ELSE acc

\* parseFloat on a string of an optional sign and decimal digits (whole degrees,
\* returned in tenths); NaN (Null) when no digit leads
parseFloat(s) ==
  LET t == trimLeft(s)
      neg == t # <<>> /\ Head(t) = "-"
      body == IF t # <<>> /\ Head(t) \in {"-", "+"} THEN Tail(t) ELSE t
  IN IF body # <<>> /\ IsDigit(Head(body))
     THEN Num((IF neg THEN -1 ELSE 1) * leadingDigits(body, 0) * 10)
     ELSE Null

\* an array of strings, as a JSON payload can carry
Arr(a) == [t |-> "arr", a |-> a]

RECURSIVE join(_)
join(a) ==
  IF a = <<>> THEN <<>>
  ELSE IF Len(a) = 1 THEN a[1]
  ELSE a[1] \o <<",">> \o join(Tail(a))

\* the string parseFloat makes of an argument that is not a string: "undefined",
\* "null", and for an array its elements joined by commas
stringOf(v) ==
  IF v.t = "str" THEN v.s
  ELSE IF v.t = "undef" THEN <<"u", "n", "d", "e", "f", "i", "n", "e", "d">>
  ELSE IF v.t = "null" THEN <<"n", "u", "l", "l">>
  ELSE join(v.a)

\* moveTowardDirection(targetDirection, degrees, camera)
AreaLight_moveTowardDirection(light, targetDirection, degrees) ==
  LET targetAzimuth == directionToAzimuthAngle(targetDirection)
      numValue == IF targetDirection.t = "num" THEN targetDirection
                  ELSE parseFloat(stringOf(targetDirection))
      targetAzimuthNum == IF targetAzimuth = Null THEN numValue ELSE targetAzimuth
  IN IF targetAzimuth = Null /\ numValue = Null
     THEN [threw |-> FALSE, light |-> light]
     ELSE LET current == AreaLight_getPositionSpherical(light)
              d0 == targetAzimuthNum.n - current.azimuth
              d1 == IF d0 > 1800 THEN d0 - 3600 ELSE d0
              diff == IF d1 < -1800 THEN d1 + 3600 ELSE d1
              moveAmount == Sign(diff) * Min(Abs(diff), degrees)
              newAzimuth == JsRem(current.azimuth + moveAmount + 3600, 3600)
          IN AreaLight_setPositionSpherical(light, Num(newAzimuth), current.elevation)

AreaLight_setDistance_FromNorth(light, distance) ==
  LET current == AreaLight_getPositionSpherical(light)
      cartesian == sphericalToCartesian(Num(0), current.elevation, distance)
  IN lookAt([light EXCEPT !.pos = cartesian.v])

\* setDistance(distance, camera): same azimuth and elevation as read back, new distance
AreaLight_setDistance(light, distance) ==
  LET current == AreaLight_getPositionSpherical(light)
      cartesian == sphericalToCartesian(Num(current.azimuth), current.elevation, distance)
  IN lookAt([light EXCEPT !.pos = cartesian.v])

\* setPositionCartesian(x, y, z), the position given in polar form
AreaLight_setPositionCartesian(light, v) == lookAt([light EXCEPT !.pos = v])

(***************************************************************************)
(* CameraController.js: operations on the camera record                    *)
(*   [distance, zoom, initialPinchDistance, initialCameraDistance]         *)
(***************************************************************************)
\* faulty variant: the upper limit is not applied
clampDistance_NoUpperLimit(value) == Max(MIN_DISTANCE, value)

clampDistance(value) == Max(MIN_DISTANCE, Min(MAX_DISTANCE, value))

clampFOV(value) == Max(FOV_MIN, Min(FOV_MAX, value))

applyFOVChange(cam, fovDelta) == [cam EXCEPT !.zoom = clampFOV(cam.zoom + fovDelta)]

applyDolly(cam, dollyDelta) == [cam EXCEPT !.distance = clampDistance(cam.distance + dollyDelta)]

\* faulty variant: the modifier is not looked at, every tick dollies
handleWheel_ModifierIgnored(cam, deltaY, isShiftPressed) ==
  applyDolly(cam, IF deltaY > 0 THEN DOLLY_SPEED ELSE -DOLLY_SPEED)

\* handleWheel(deltaY, isShiftPressed)
handleWheel(cam, deltaY, isShiftPressed) ==
  IF isShiftPressed
  THEN applyFOVChange(cam, IF deltaY > 0 THEN -FOV_SPEED ELSE FOV_SPEED)
  ELSE applyDolly(cam, IF deltaY > 0 THEN DOLLY_SPEED ELSE -DOLLY_SPEED)

\* Math.hypot of the two touches' offsets, to the whole pixel below
hypot(dx, dy) ==
  LET q == dx * dx + dy * dy
  IN CHOOSE r \in 0..(Abs(dx) + Abs(dy)) : r * r <= q /\ (r + 1) * (r + 1) > q

startPinchZoom(cam, touch1, touch2) ==
  [cam EXCEPT !.initialPinchDistance = hypot(touch2[1] - touch1[1], touch2[2] - touch1[2]),
              !.initialCameraDistance = cam.distance]

\* faulty variant: each update adds its delta to the current distance
updatePinchZoom_Accumulating(cam, touch1, touch2) ==
  LET currentPinchDistance == hypot(touch2[1] - touch1[1], touch2[2] - touch1[2])
      pinchDelta == cam.initialPinchDistance - currentPinchDistance
      dollyDelta == pinchDelta * PINCH_ZOOM_SENSITIVITY
      newDistance == cam.distance + dollyDelta
  IN [cam EXCEPT !.distance = clampDistance(newDistance)]

updatePinchZoom(cam, touch1, touch2) ==
  LET currentPinchDistance == hypot(touch2[1] - touch1[1], touch2[2] - touch1[2])
      pinchDelta == cam.initialPinchDistance - currentPinchDistance
      dollyDelta == pinchDelta * PINCH_ZOOM_SENSITIVITY
      newDistance == cam.initialCameraDistance + dollyDelta
  IN [cam EXCEPT !.distance = clampDistance(newDistance)]

Camera_dollyCamera(cam, distance) == [cam EXCEPT !.distance = clampDistance(distance)]

\* amount = null selects the configured speed
Camera_dollyCameraIn(cam, amount) ==
  applyDolly(cam, IF amount # Null THEN -amount.n ELSE -DOLLY_SPEED)

Camera_dollyCameraOut(cam, amount) ==
  applyDolly(cam, IF amount # Null THEN amount.n ELSE DOLLY_SPEED)

Camera_setCameraFOV(cam, fov) == [cam EXCEPT !.zoom = clampFOV(fov)]

Camera_increaseCameraFOV(cam, amount) ==
  applyFOVChange(cam, IF amount # Null THEN amount.n ELSE FOV_SPEED)

Camera_decreaseCameraFOV(cam, amount) ==
  applyFOVChange(cam, IF amount # Null THEN -amount.n ELSE -FOV_SPEED)

(***************************************************************************)
(* RotationController.js (arcball): drag flag and Euler read/write of the  *)
(* model orientation, whole degrees.                                       *)
(***************************************************************************)
\* an angle folded into (-180, 180]
WrapDegrees(d) == LET m == d % 360 IN IF m > 180 THEN m - 360 ELSE m

beginDrag(rc, point) == [isDragging |-> TRUE, anchor |-> point]

\* updateDrag(point): the model turns with the pointer's offset from the last point
updateDrag_rotation(rc, rotation, point) ==
  <<WrapDegrees(rotation[1] + (point[2] - rc.anchor[2])),
    WrapDegrees(rotation[2] + (point[1] - rc.anchor[1])),
    rotation[3]>>

updateDrag(rc, point) == [rc EXCEPT !.anchor = point]

endDrag(rc, point) == [rc EXCEPT !.isDragging = FALSE]

stopDrag(rc) == [rc EXCEPT !.isDragging = FALSE]

isCurrentlyDragging == rotationController.isDragging

setRotationEuler(x, y, z) == <<WrapDegrees(x), WrapDegrees(y), WrapDegrees(z)>>

Rotation_rotateClockwise(rotation, degrees) ==
  <<rotation[1], WrapDegrees(rotation[2] - degrees), rotation[3]>>

Rotation_rotateCounterclockwise(rotation, degrees) ==
  <<rotation[1], WrapDegrees(rotation[2] + degrees), rotation[3]>>

Rotation_nudgePitchUp(rotation, degrees) ==
  <<WrapDegrees(rotation[1] + degrees), rotation[2], rotation[3]>>

Rotation_nudgePitchDown(rotation, degrees) ==
  <<WrapDegrees(rotation[1] - degrees), rotation[2], rotation[3]>>

Rotation_nudgeRoll(rotation, degrees) ==
  <<rotation[1], rotation[2], WrapDegrees(rotation[3] + degrees)>>

(***************************************************************************)
(* SceneManager.js: operations on the scene  S = [model, background,       *)
(* lights, camera].  Every operation returns [threw, S].                   *)
(***************************************************************************)
Scene == [model |-> model, background |-> background, lights |-> lights, camera |-> camera]

Ok(S) == [threw |-> FALSE, S |-> S]
Threw(S) == [threw |-> TRUE, S |-> S]

\* a default parameter: taken when the argument is undefined
Default(v, d) == IF v = Undefined THEN d ELSE v

HexDigits == <<"0","1","2","3","4","5","6","7","8","9","a","b","c","d","e","f">>
IsHexDigit(c) == \E i \in 1..16 : HexDigits[i] = toLowerCase(c)
HexValue(c) == (CHOOSE i \in 1..16 : HexDigits[i] = toLowerCase(c)) - 1

RECURSIVE leadingHex(_, _)
leadingHex(s, acc) ==
  IF s # <<>> /\ IsHexDigit(Head(s))
  THEN leadingHex(Tail(s), acc * 16 + HexValue(Head(s)))
  ELSE acc

\* color.replace('#', ''): the first '#' is removed
RECURSIVE removeFirstHash(_)
removeFirstHash(s) ==
  IF s = <<>> THEN s
  ELSE IF Head(s) = "#" THEN Tail(s)
  ELSE <<Head(s)>> \o removeFirstHash(Tail(s))

\* parseInt(color.replace('#', ''), 16) as Color.setHex stores it: the leading hex
\* digits, 24 bits kept; NaN (no leading digit) is stored as 0
hexColor(s) == leadingHex(removeFirstHash(s), 0) % 16777216

\* changeModelColor(color): color.replace throws unless color is a string
changeModelColor(S, color) ==
  IF color.t # "str" THEN Threw(S)
  ELSE Ok([S EXCEPT !.model.color = hexColor(color.s)])

changeModelSize(S, size) == Ok([S EXCEPT !.model.scale = <<size, size, size>>])

scaleModel(S, x, y, z) == Ok([S EXCEPT !.model.scale = <<x, y, z>>])

changeBackgroundColor(S, color) ==
  IF color.t # "str" THEN Threw(S)
  ELSE Ok([S EXCEPT !.background = hexColor(color.s)])

getBackgroundColor(S) == IF S.background = -1 THEN 0 ELSE S.background

setLightIntensity(S, l, intensity) == Ok([S EXCEPT !.lights[l].intensity = intensity])

setLightColor(S, l, color) ==
  IF color.t # "str" THEN Threw(S)
  ELSE Ok([S EXCEPT !.lights[l].color = hexColor(color.s)])

setLightSize(S, l, width, height) ==
  Ok([S EXCEPT !.lights[l].width = width, !.lights[l].height = height])

\* the SceneManager method hands the light operation's outcome on
OnLight(S, l, r) == [threw |-> r.threw, S |-> [S EXCEPT !.lights[l] = r.light]]

setLightPositionSpherical(S, l, azimuth, elevation) ==
  OnLight(S, l, AreaLight_setPositionSpherical(S.lights[l], azimuth, elevation))

rotateLightClockwise(S, l, degrees) ==
  OnLight(S, l, AreaLight_rotateClockwise(S.lights[l], Default(degrees, Num(100)).n))

rotateLightCounterclockwise(S, l, degrees) ==
  OnLight(S, l, AreaLight_rotateCounterclockwise(S.lights[l], Default(degrees, Num(100)).n))

nudgeLightElevationUp(S, l, degrees) ==
  OnLight(S, l, AreaLight_nudgeElevationUp(S.lights[l], Default(degrees, Num(50)).n))

nudgeLightElevationDown(S, l, degrees) ==
  OnLight(S, l, AreaLight_nudgeElevationDown(S.lights[l], Default(degrees, Num(50)).n))

moveLightTowardDirection(S, l, targetDirection, degrees) ==
  OnLight(S, l, AreaLight_moveTowardDirection(S.lights[l], targetDirection,
                                              Default(degrees, Num(100)).n))

setLightDistance(S, l, distance) ==
  Ok([S EXCEPT !.lights[l] = AreaLight_setDistance(S.lights[l], distance)])

\* THREE.MathUtils.degToRad, whole degrees to micro-radians
degToRad(degrees) == (degrees * 3141593) \div 180

swingLight(S, l, dir) ==
  LET swingAmountRadians == degToRad(AREA_LIGHT_SWING_AMOUNT)
      light == S.lights[l]
  IN Ok([S EXCEPT !.lights[l] =
       CASE dir = "Up" -> AreaLight_rotate(light, 0, -swingAmountRadians)
         [] dir = "Down" -> AreaLight_rotate(light, 0, swingAmountRadians)
         [] dir = "Left" -> AreaLight_rotate(light, -swingAmountRadians, 0)
         [] dir = "Right" -> AreaLight_rotate(light, swingAmountRadians, 0)])

walkLightIn(S, l) ==
  Ok([S EXCEPT !.lights[l] = AreaLight_dolly(S.lights[l], -AREA_LIGHT_WALK_AMOUNT)])

walkLightOut(S, l) ==
  Ok([S EXCEPT !.lights[l] = AreaLight_dolly(S.lights[l], AREA_LIGHT_WALK_AMOUNT)])

dollyCamera(S, distance) == Ok([S EXCEPT !.camera = Camera_dollyCamera(S.camera, distance)])

\* amount = null by default
dollyCameraIn(S, amount) ==
  Ok([S EXCEPT !.camera = Camera_dollyCameraIn(S.camera, Default(amount, Null))])

dollyCameraOut(S, amount) ==
  Ok([S EXCEPT !.camera = Camera_dollyCameraOut(S.camera, Default(amount, Null))])

setCameraFOV(S, fov) == Ok([S EXCEPT !.camera = Camera_setCameraFOV(S.camera, fov)])

increaseCameraFOV(S, amount) ==
  Ok([S EXCEPT !.camera = Camera_increaseCameraFOV(S.camera, Default(amount, Null))])

decreaseCameraFOV(S, amount) ==
  Ok([S EXCEPT !.camera = Camera_decreaseCameraFOV(S.camera, Default(amount, Null))])

setModelRotation(S, x, y, z) == Ok([S EXCEPT !.model.rotation = setRotationEuler(x, y, z)])

rotateModelClockwise(S, degrees) ==
  Ok([S EXCEPT !.model.rotation = Rotation_rotateClockwise(@, Default(degrees, Num(10)).n)])

rotateModelCounterclockwise(S, degrees) ==
  Ok([S EXCEPT !.model.rotation = Rotation_rotateCounterclockwise(@, Default(degrees, Num(10)).n)])

nudgeModelPitchUp(S, degrees) ==
  Ok([S EXCEPT !.model.rotation = Rotation_nudgePitchUp(@, Default(degrees, Num(5)).n)])

nudgeModelPitchDown(S, degrees) ==
  Ok([S EXCEPT !.model.rotation = Rotation_nudgePitchDown(@, Default(degrees, Num(5)).n)])

nudgeModelRoll(S, degrees) ==
  Ok([S EXCEPT !.model.rotation = Rotation_nudgeRoll(@, Default(degrees, Num(5)).n)])

(***************************************************************************)
(* Application.getSceneState: the snapshot                                 *)
(***************************************************************************)
lightState(light) ==
  [intensity |-> light.intensity,
   color |-> light.color,
   position |-> AreaLight_getPositionSpherical(light),
   size |-> [width |-> light.width, height |-> light.height]]

getSceneState(S) ==
  [model |-> [color |-> S.model.color, scale |-> S.model.scale, rotation |-> S.model.rotation],
   background |-> getBackgroundColor(S),
   keyLight |-> lightState(S.lights["key"]),
   fillLight |-> lightState(S.lights["fill"]),
   camera |-> [distance |-> S.camera.distance, fov |-> S.camera.zoom]]

(***************************************************************************)
(* Application.js: the command router                                      *)
(***************************************************************************)
\* a field of the command message; a field the message lacks reads undefined
Field(command, f) == IF f \in DOMAIN command THEN command[f] ELSE Undefined

NoHandler == [threw |-> FALSE, none |-> TRUE]

\* _showToolNotification(toolName): toolName.split throws unless it is a string
showToolNotification(S, toolName) == IF toolName.t # "str" THEN Threw(S) ELSE Ok(S)

\* _initCommandHandlers: the handler registered under command.type applied to the
\* command, or NoHandler when the map has no such key
commandHandlers(command, S) ==
  LET t == command.type
      F(f) == Field(command, f)
  IN CASE t = "toolCall" -> showToolNotification(S, F("toolName"))
       [] t = "changeColor" -> changeModelColor(S, F("color"))
       [] t = "changeSize" -> changeModelSize(S, F("size").n)
       [] t = "scaleModel" -> scaleModel(S, F("x").n, F("y").n, F("z").n)
       [] t = "changeBackgroundColor" -> changeBackgroundColor(S, F("color"))
       [] t = "getBackgroundColor" -> Ok(S)
       [] t = "setKeyLightIntensity" -> setLightIntensity(S, "key", F("intensity").n)
       [] t = "setKeyLightColor" -> setLightColor(S, "key", F("color"))
       [] t = "swingKeyLightUp" -> swingLight(S, "key", "Up")
       [] t = "swingKeyLightDown" -> swingLight(S, "key", "Down")
       [] t = "swingKeyLightLeft" -> swingLight(S, "key", "Left")
       [] t = "swingKeyLightRight" -> swingLight(S, "key", "Right")
       [] t = "walkKeyLightIn" -> walkLightIn(S, "key")
       [] t = "walkKeyLightOut" -> walkLightOut(S, "key")
       [] t = "setKeyLightPositionSpherical" ->
            setLightPositionSpherical(S, "key", F("azimuth"), F("elevation").n)
       [] t = "getKeyLightPositionSpherical" -> Ok(S)
       [] t = "getKeyLightIntensity" -> Ok(S)
       [] t = "getKeyLightColor" -> Ok(S)
       [] t = "getKeyLightSize" -> Ok(S)
       [] t = "setFillLightIntensity" -> setLightIntensity(S, "fill", F("intensity").n)
       [] t = "setFillLightColor" -> setLightColor(S, "fill", F("color"))
       [] t = "swingFillLightUp" -> swingLight(S, "fill", "Up")
       [] t = "swingFillLightDown" -> swingLight(S, "fill", "Down")
       [] t = "swingFillLightLeft" -> swingLight(S, "fill", "Left")
       [] t = "swingFillLightRight" -> swingLight(S, "fill", "Right")
       [] t = "walkFillLightIn" -> walkLightIn(S, "fill")
       [] t = "walkFillLightOut" -> walkLightOut(S, "fill")
       [] t = "setFillLightPositionSpherical" ->
            setLightPositionSpherical(S, "fill", F("azimuth"), F("elevation").n)
       [] t = "getFillLightPositionSpherical" -> Ok(S)
       [] t = "getFillLightIntensity" -> Ok(S)
       [] t = "getFillLightColor" -> Ok(S)
       [] t = "getFillLightSize" -> Ok(S)
       [] t = "dollyCamera" -> dollyCamera(S, F("distance").n)
       [] t = "dollyCameraIn" -> dollyCameraIn(S, F("amount"))
       [] t = "dollyCameraOut" -> dollyCameraOut(S, F("amount"))
       [] t = "setCameraFOV" -> setCameraFOV(S, F("fov").n)
       [] t = "increaseCameraFOV" -> increaseCameraFOV(S, F("amount"))
       [] t = "decreaseCameraFOV" -> decreaseCameraFOV(S, F("amount"))
       [] t = "getCameraDistance" -> Ok(S)
       [] t = "getCameraFOV" -> Ok(S)
       [] t = "getModelRotation" -> Ok(S)
       [] t = "getModelColor" -> Ok(S)
       [] t = "getModelScale" -> Ok(S)
       [] t = "setModelRotation" -> setModelRotation(S, F("x").n, F("y").n, F("z").n)
       [] t = "rotateModelClockwise" -> rotateModelClockwise(S, F("degrees"))
       [] t = "rotateModelCounterclockwise" -> rotateModelCounterclockwise(S, F("degrees"))
       [] t = "nudgeModelPitchUp" -> nudgeModelPitchUp(S, F("degrees"))
       [] t = "nudgeModelPitchDown" -> nudgeModelPitchDown(S, F("degrees"))
       [] t = "nudgeModelRoll" -> nudgeModelRoll(S, F("degrees"))
       [] t = "rotateKeyLightClockwise" -> rotateLightClockwise(S, "key", F("degrees"))
       [] t = "rotateKeyLightCounterclockwise" ->
            rotateLightCounterclockwise(S, "key", F("degrees"))
       [] t = "nudgeKeyLightElevationUp" -> nudgeLightElevationUp(S, "key", F("degrees"))
       [] t = "nudgeKeyLightElevationDown" -> nudgeLightElevationDown(S, "key", F("degrees"))
       [] t = "moveKeyLightTowardDirection" ->
            moveLightTowardDirection(S, "key", F("direction"), F("degrees"))
       [] t = "rotateFillLightClockwise" -> rotateLightClockwise(S, "fill", F("degrees"))
       [] t = "rotateFillLightCounterclockwise" ->
            rotateLightCounterclockwise(S, "fill", F("degrees"))
       [] t = "nudgeFillLightElevationUp" -> nudgeLightElevationUp(S, "fill", F("degrees"))
       [] t = "nudgeFillLightElevationDown" -> nudgeLightElevationDown(S, "fill", F("degrees"))
       [] t = "moveFillLightTowardDirection" ->
            moveLightTowardDirection(S, "fill", F("direction"), F("degrees"))
       [] t = "setKeyLightDistance" -> setLightDistance(S, "key", F("distance").n)
       [] t = "setFillLightDistance" -> setLightDistance(S, "fill", F("distance").n)
       [] OTHER -> NoHandler

\* command.type.startsWith('get'), over the command types of the model
GetPrefixed ==
  {"getBackgroundColor", "getKeyLightPositionSpherical", "getKeyLightIntensity",
   "getKeyLightColor", "getKeyLightSize", "getFillLightPositionSpherical",
   "getFillLightIntensity", "getFillLightColor", "getFillLightSize",
   "getCameraDistance", "getCameraFOV", "getModelRotation", "getModelColor",
   "getModelScale", "getSomethingUnknown"}

startsWithGet(type) == type \in GetPrefixed

\* faulty variant: the snapshot is pushed after every handled command, queries and
\* notifications included
handleWebSocketCommand_PushesAfterEveryHandler(command, S) ==
  LET r == commandHandlers(command, S)
  IN IF r = NoHandler
     THEN [outcome |-> "unknown", S |-> S, send |-> FALSE]
     ELSE IF r.threw
     THEN [outcome |-> "threw", S |-> r.S, send |-> FALSE]
     ELSE [outcome |-> "ok", S |-> r.S, send |-> TRUE]

\* faulty variant: the snapshot is pushed outside the handler test, so an unknown
\* command pushes too
handleWebSocketCommand_PushesForUnknown(command, S) ==
  LET isGetterCommand == startsWithGet(command.type)
      isToolCallNotification == command.type = "toolCall"
      r == commandHandlers(command, S)
  IN IF r = NoHandler
     THEN [outcome |-> "unknown", S |-> S,
           send |-> ~isGetterCommand /\ ~isToolCallNotification]
     ELSE IF r.threw
     THEN [outcome |-> "threw", S |-> r.S, send |-> FALSE]
     ELSE [outcome |-> "ok", S |-> r.S,
           send |-> ~isGetterCommand /\ ~isToolCallNotification]

\* _handleWebSocketCommand(command): the scene after the handler ran, whether an
\* exception escaped, and whether _sendStateUpdate was called
handleWebSocketCommand(command, S) ==
  LET isGetterCommand == startsWithGet(command.type)
      isToolCallNotification == command.type = "toolCall"
      r == commandHandlers(command, S)
  IN IF r = NoHandler
     THEN [outcome |-> "unknown", S |-> S, send |-> FALSE]
     ELSE IF r.threw
     THEN [outcome |-> "threw", S |-> r.S, send |-> FALSE]
     ELSE [outcome |-> "ok", S |-> r.S,
           send |-> ~isGetterCommand /\ ~isToolCallNotification]

\* faulty variant: the push does not ask whether the channel is open
sendStateUpdate_WithoutOpenTest == wsClient

\* _sendStateUpdate(): pushes only through an existing, connected client
sendStateUpdate == wsClient /\ connected

(***************************************************************************)
(* Inputs of the model                                                     *)
(***************************************************************************)
PointerPositions == {<<0, 0>>, <<10, 5>>}

\* pairs of touches: spans of 100, 50 (a 30-40-50 triangle) and 300 pixels
TouchPairs == {<< <<0, 0>>, <<100, 0>> >>, << <<10, 10>>, <<40, 50>> >>,
               << <<0, 0>>, <<0, 300>> >>}

Red == Str(<<"#", "f", "f", "0", "0", "0", "0">>)
UpperBlue == Str(<<"0", "0", "0", "0", "F", "F">>)

LightCommands(K) ==
  {[type |-> "set" \o K \o "LightIntensity", intensity |-> Num(10)],
   [type |-> "set" \o K \o "LightColor", color |-> Red],
   [type |-> "set" \o K \o "LightColor"],
   [type |-> "set" \o K \o "LightSize", width |-> Num(3), height |-> Num(4)],
   [type |-> "swing" \o K \o "LightUp"],
   [type |-> "swing" \o K \o "LightDown"],
   [type |-> "swing" \o K \o "LightLeft"],
   [type |-> "swing" \o K \o "LightRight"],
   [type |-> "walk" \o K \o "LightIn"],
   [type |-> "walk" \o K \o "LightOut"],
   [type |-> "set" \o K \o "LightPositionSpherical", azimuth |-> Num(900), elevation |-> Num(450)],
   [type |-> "set" \o K \o "LightPositionSpherical",
    azimuth |-> Str(<<"N", "o", "r", "t", "h", "-", "w", "e", "s", "t">>), elevation |-> Num(900)],
   [type |-> "set" \o K \o "LightPositionSpherical",
    azimuth |-> Str(<<"u", "p", "w", "a", "r", "d">>), elevation |-> Num(450)],
   [type |-> "set" \o K \o "LightPositionSpherical", elevation |-> Num(450)],
   [type |-> "rotate" \o K \o "LightClockwise", degrees |-> Num(1500)],
   [type |-> "rotate" \o K \o "LightClockwise"],
   [type |-> "rotate" \o K \o "LightCounterclockwise", degrees |-> Num(2300)],
   [type |-> "nudge" \o K \o "LightElevationUp", degrees |-> Num(700)],
   [type |-> "nudge" \o K \o "LightElevationUp"],
   [type |-> "nudge" \o K \o "LightElevationDown", degrees |-> Num(300)],
   [type |-> "move" \o K \o "LightTowardDirection", direction |-> Num(2000), degrees |-> Num(100)],
   [type |-> "move" \o K \o "LightTowardDirection", direction |-> Str(<<"S", "W">>)],
   [type |-> "move" \o K \o "LightTowardDirection", direction |-> Str(<<"u", "p">>)],
   [type |-> "set" \o K \o "LightDistance", distance |-> Num(1000)],
   [type |-> "set" \o K \o "LightDistance", distance |-> Num(0)],
   [type |-> "get" \o K \o "LightPositionSpherical"],
   [type |-> "get" \o K \o "LightIntensity"],
   [type |-> "get" \o K \o "LightColor"],
   [type |-> "get" \o K \o "LightSize"]}

CameraCommands ==
  {[type |-> "dollyCamera", distance |-> Num(10000)],
   [type |-> "dollyCamera", distance |-> Num(805)],
   [type |-> "dollyCamera", distance |-> Num(-300)],
   [type |-> "dollyCameraIn"],
   [type |-> "dollyCameraIn", amount |-> Num(3000)],
   [type |-> "dollyCameraOut"],
   [type |-> "dollyCameraOut", amount |-> Num(3195)],
   [type |-> "setCameraFOV", fov |-> Num(499)],
   [type |-> "setCameraFOV", fov |-> Num(0)],
   [type |-> "increaseCameraFOV"],
   [type |-> "increaseCameraFOV", amount |-> Num(450)],
   [type |-> "decreaseCameraFOV"],
   [type |-> "decreaseCameraFOV", amount |-> Num(49)]}

ModelCommands ==
  {[type |-> "changeColor", color |-> Red],
   [type |-> "changeColor", color |-> UpperBlue],
   [type |-> "changeColor"],
   [type |-> "changeSize", size |-> Num(2)],
   [type |-> "scaleModel", x |-> Num(1), y |-> Num(2), z |-> Num(3)],
   [type |-> "changeBackgroundColor", color |-> Red],
   [type |-> "changeBackgroundColor", color |-> Num(255)],
   [type |-> "setModelRotation", x |-> Num(10), y |-> Num(20), z |-> Num(30)],
   [type |-> "rotateModelClockwise", degrees |-> Num(90)],
   [type |-> "rotateModelClockwise"],
   [type |-> "rotateModelCounterclockwise", degrees |-> Num(45)],
   [type |-> "nudgeModelPitchUp"],
   [type |-> "nudgeModelPitchDown", degrees |-> Num(15)],
   [type |-> "nudgeModelRoll", degrees |-> Num(-5)]}

QueryCommands ==
  {[type |-> "getBackgroundColor"], [type |-> "getCameraDistance"],
   [type |-> "getCameraFOV"], [type |-> "getModelRotation"],
   [type |-> "getModelColor"], [type |-> "getModelScale"]}

NotificationCommands ==
  {[type |-> "toolCall", toolName |-> Str(<<"s", "e", "t", "_", "f", "o", "v">>)],
   [type |-> "toolCall"]}

UnknownCommands ==
  {[type |-> "doSomethingUnknown"], [type |-> "getSomethingUnknown"]}

\* remote commands that move a light: the positions, distances and amounts the
\* light claims turn on
LightMoveCommands(K) ==
  {[type |-> "set" \o K \o "LightDistance", distance |-> Num(50)],
   [type |-> "set" \o K \o "LightDistance", distance |-> Num(0)],
   [type |-> "set" \o K \o "LightDistance", distance |-> Num(1000)],
   [type |-> "walk" \o K \o "LightIn"],
   [type |-> "walk" \o K \o "LightOut"],
   [type |-> "set" \o K \o "LightPositionSpherical", azimuth |-> Num(900), elevation |-> Num(450)],
   [type |-> "set" \o K \o "LightPositionSpherical",
    azimuth |-> Str(<<"N", "W">>), elevation |-> Num(900)],
   [type |-> "set" \o K \o "LightPositionSpherical",
    azimuth |-> Str(<<"u", "p", "w", "a", "r", "d">>), elevation |-> Num(450)],
   [type |-> "rotate" \o K \o "LightClockwise"],
   [type |-> "rotate" \o K \o "LightCounterclockwise", degrees |-> Num(2300)],
   [type |-> "nudge" \o K \o "LightElevationUp", degrees |-> Num(700)],
   [type |-> "nudge" \o K \o "LightElevationDown", degrees |-> Num(300)],
   [type |-> "move" \o K \o "LightTowardDirection", direction |-> Num(2000), degrees |-> Num(100)],
   [type |-> "move" \o K \o "LightTowardDirection", direction |-> Str(<<"S", "W">>)],
   [type |-> "swing" \o K \o "LightUp"],
   [type |-> "swing" \o K \o "LightLeft"]}

Commands ==
  LightCommands("Key") \cup LightCommands("Fill") \cup CameraCommands \cup ModelCommands
    \cup QueryCommands \cup NotificationCommands \cup UnknownCommands

\* the references of the SceneManager that are null after its constructor, in the
\* order Application.init sets them: scene, model, keyLight and fillLight,
\* cameraController, rotationController (camera is set by the constructor)
InitOrder == <<"scene", "model", "lights", "cameraController", "rotationController">>
References == {InitOrder[i] : i \in 1..Len(InitOrder)}

(***************************************************************************)
(* Initial state: Application.init has completed                           *)
(***************************************************************************)
NoSnapshot == [none |-> TRUE]

\* Application.init: awaiting the asset load, run to its end, or rejected;
\* listening: _setupEventListeners has run, animating: _startAnimation has run,
\* rejected: the promise init returned is rejected
Loading == [phase |-> "loading", listening |-> FALSE, animating |-> FALSE, rejected |-> FALSE]
Running == [phase |-> "running", listening |-> TRUE, animating |-> TRUE, rejected |-> FALSE]
Failed == [phase |-> "failed", listening |-> FALSE, animating |-> FALSE, rejected |-> TRUE]

\* what the handlers report about the event they just handled
Ev(ev) ==
  [ev |-> ev, kind |-> "", outcome |-> "", sent |-> FALSE, from |-> "none",
   rotated |-> "none", modelUpdated |-> FALSE,
   startedLight |-> FALSE, startedModel |-> FALSE,
   light |-> "none", op |-> <<>>, was |-> <<>>]

\* AreaLight constructor: CONFIG position minus MODEL.ORIGIN, in polar form
\* key (5, 3.5, 5), fill (-5, 2.5, 5); _configureAreaLight ends with lookAt
InitialLights ==
  [l \in LightNames |->
     IF l = "key"
     THEN lookAt([intensity |-> 25, color |-> SNOW, width |-> 6, height |-> 6,
                  rotX |-> 0, rotY |-> 0, pos |-> [az |-> 1350, el |-> 263, r |-> 789],
                  aim |-> <<>>])
     ELSE lookAt([intensity |-> 2, color |-> SNOW, width |-> 8, height |-> 8,
                  rotX |-> 0, rotY |-> 0, pos |-> [az |-> 2250, el |-> 195, r |-> 748],
                  aim |-> <<>>])]

InitBase ==
  /\ currentMode = MODEL_ROTATION
  /\ currentHoveredAreaLight = "none"
  /\ isAreaLightDragging = FALSE
  /\ areaLightDragStartPosition = <<0, 0>>
  /\ highlighted = [l \in LightNames |-> FALSE]
  /\ rotationController = [isDragging |-> FALSE, anchor |-> <<0, 0>>]
  /\ model = [color |-> SNOW, scale |-> <<MODEL_SIZE, MODEL_SIZE, MODEL_SIZE>>,
              rotation |-> <<0, 0, 0>>]
  /\ background = -1
  /\ lights = InitialLights
  /\ camera = [distance |-> INITIAL_DISTANCE, zoom |-> 100,
               initialPinchDistance |-> 0, initialCameraDistance |-> INITIAL_DISTANCE]
  /\ wsClient \in BOOLEAN
  /\ connected = FALSE
  /\ sentCount = 0
  /\ lastSent = NoSnapshot
  /\ lastEvent = Ev("init")
  /\ dragLight = "none"
  /\ expected = 0
  /\ underPointer = "none"
  /\ app = Running

\* what the ray through the resting pointer hits once lights L and camera C are in
\* place: the same as before if the light it hit and the camera are where they
\* were; if that light or the camera moved, its proxy may have left the ray
rayAfter(hit, L, C) ==
  IF hit \in LightNames
     /\ (pose(L[hit]) # pose(lights[hit]) \/ C.distance # camera.distance \/ C.zoom # camera.zoom)
  THEN {hit, "none"}
  ELSE {hit}

\* the scene is rendered as the handler leaves it; hit is what the ray hit when
\* the handler began, or what its own ray cast found
Ray(hit) == underPointer' \in rayAfter(hit, lights', camera')

\* one event is handled: the budget of events goes down by one; no handler
\* sets or clears a reference of the SceneManager or takes part in init
Tick == steps > 0 /\ steps' = steps - 1 /\ UNCHANGED <<ready, app>>

(***************************************************************************)
(* Application.js: pointer, wheel and touch handlers                       *)
(***************************************************************************)
\* SceneManager.getHoveredAreaLight(intersections[0]), "none" for no intersection
getHoveredAreaLight(pick) == IF pick \in LightNames THEN pick ELSE "none"

\* faulty variant: the hover test is skipped while a drag is active
updateAreaLightHover_NotWhileDragging(pick) ==
  LET hoveredAreaLight == IF isAreaLightDragging \/ isCurrentlyDragging
                          THEN currentHoveredAreaLight
                          ELSE getHoveredAreaLight(pick)
      cleared == IF currentHoveredAreaLight # "none"
                 THEN [highlighted EXCEPT ![currentHoveredAreaLight] = FALSE]
                 ELSE highlighted
  IN IF hoveredAreaLight # currentHoveredAreaLight
     THEN [mode |-> IF hoveredAreaLight # "none"
                    THEN setMode(currentMode, AREA_LIGHT_MANIPULATION)
                    ELSE setMode(currentMode, MODEL_ROTATION),
           hovered |-> hoveredAreaLight,
           highlighted |-> IF hoveredAreaLight # "none"
                           THEN [cleared EXCEPT ![hoveredAreaLight] = TRUE]
                           ELSE cleared]
     ELSE [mode |-> currentMode, hovered |-> currentHoveredAreaLight,
           highlighted |-> highlighted]

\* faulty variant: leaving the proxies does not put the mode back
updateAreaLightHover_KeepsModeOnLeave(pick) ==
  LET hoveredAreaLight == getHoveredAreaLight(pick)
      cleared == IF currentHoveredAreaLight # "none"
                 THEN [highlighted EXCEPT ![currentHoveredAreaLight] = FALSE]
                 ELSE highlighted
  IN IF hoveredAreaLight # currentHoveredAreaLight
     THEN [mode |-> IF hoveredAreaLight # "none"
                    THEN setMode(currentMode, AREA_LIGHT_MANIPULATION)
                    ELSE currentMode,
           hovered |-> hoveredAreaLight,
           highlighted |-> IF hoveredAreaLight # "none"
                           THEN [cleared EXCEPT ![hoveredAreaLight] = TRUE]
                           ELSE cleared]
     ELSE [mode |-> currentMode, hovered |-> currentHoveredAreaLight,
           highlighted |-> highlighted]

\* faulty variant: the previous hover target's highlight is not cleared
updateAreaLightHover_KeepsOldHighlight(pick) ==
  LET hoveredAreaLight == getHoveredAreaLight(pick)
  IN IF hoveredAreaLight # currentHoveredAreaLight
     THEN [mode |-> IF hoveredAreaLight # "none"
                    THEN setMode(currentMode, AREA_LIGHT_MANIPULATION)
                    ELSE setMode(currentMode, MODEL_ROTATION),
           hovered |-> hoveredAreaLight,
           highlighted |-> IF hoveredAreaLight # "none"
                           THEN [highlighted EXCEPT ![hoveredAreaLight] = TRUE]
                           ELSE highlighted]
     ELSE [mode |-> currentMode, hovered |-> currentHoveredAreaLight,
           highlighted |-> highlighted]

\* _updateAreaLightHover(): mode, hover target and highlights after the ray pick
updateAreaLightHover(pick) ==
  LET hoveredAreaLight == getHoveredAreaLight(pick)
      cleared == IF currentHoveredAreaLight # "none"
                 THEN [highlighted EXCEPT ![currentHoveredAreaLight] = FALSE]
                 ELSE highlighted
  IN IF hoveredAreaLight # currentHoveredAreaLight
     THEN [mode |-> IF hoveredAreaLight # "none"
                    THEN setMode(currentMode, AREA_LIGHT_MANIPULATION)
                    ELSE setMode(currentMode, MODEL_ROTATION),
           hovered |-> hoveredAreaLight,
           highlighted |-> IF hoveredAreaLight # "none"
                           THEN [cleared EXCEPT ![hoveredAreaLight] = TRUE]
                           ELSE cleared]
     ELSE [mode |-> currentMode, hovered |-> currentHoveredAreaLight,
           highlighted |-> highlighted]

\* faulty variant: the light branch tests the wrong mode
mousedownBranch_WrongModeTest ==
  IF isModelRotationMode /\ currentHoveredAreaLight # "none" THEN "light"
  ELSE IF ~isModelRotationMode THEN "none"
  ELSE "model"

\* mousedown: "light" starts a light drag, "model" a model drag, "none" neither
mousedownBranch ==
  IF isAreaLightMode /\ currentHoveredAreaLight # "none" THEN "light"
  ELSE IF ~isModelRotationMode THEN "none"
  ELSE "model"

MouseDown(p) ==
  /\ Tick
  /\ LET b == mousedownBranch
     IN /\ isAreaLightDragging' = (IF b = "light" THEN TRUE ELSE isAreaLightDragging)
        /\ areaLightDragStartPosition' = (IF b = "light" THEN p ELSE areaLightDragStartPosition)
        /\ rotationController' = (IF b = "model" THEN beginDrag(rotationController, p)
                                  ELSE rotationController)
        /\ dragLight' = (IF b = "light" THEN currentHoveredAreaLight ELSE dragLight)
        /\ lastEvent' = [Ev("mousedown") EXCEPT !.startedLight = (b = "light"),
                                                !.startedModel = (b = "model")]
  /\ UNCHANGED <<currentMode, currentHoveredAreaLight, highlighted>>
  /\ UNCHANGED <<sceneVars, channelVars>>
  /\ Ray(underPointer)

\* mousemove: "light" rotates the hovered light, "model" updates the model drag
mousemoveBranch(h) ==
  IF isAreaLightDragging /\ h.hovered # "none" THEN "light"
  ELSE IF isCurrentlyDragging /\ h.mode = MODEL_ROTATION THEN "model"
  ELSE "none"

\* faulty variant: the model drag is updated whenever it is active, after a light
\* rotation and in either mode
MouseMove_UpdatesModelToo(p, pick) ==
  /\ Tick
  /\ LET h == updateAreaLightHover(pick)
         b == mousemoveBranch(h)
         m == isCurrentlyDragging
         rotationDeltaX == (p[1] - areaLightDragStartPosition[1]) * AREA_LIGHT_ROTATION_SENSITIVITY
         rotationDeltaY == (p[2] - areaLightDragStartPosition[2]) * AREA_LIGHT_ROTATION_SENSITIVITY
     IN /\ currentMode' = h.mode
        /\ currentHoveredAreaLight' = h.hovered
        /\ highlighted' = h.highlighted
        /\ lights' = (IF b = "light"
                      THEN [lights EXCEPT ![h.hovered] =
                              AreaLight_rotate(@, rotationDeltaX, rotationDeltaY)]
                      ELSE lights)
        /\ areaLightDragStartPosition' = (IF b = "light" THEN p ELSE areaLightDragStartPosition)
        /\ model' = (IF m
                     THEN [model EXCEPT !.rotation =
                             updateDrag_rotation(rotationController, @, p)]
                     ELSE model)
        /\ rotationController' = (IF m THEN updateDrag(rotationController, p)
                                  ELSE rotationController)
        /\ lastEvent' = [Ev("mousemove") EXCEPT
                           !.from = currentHoveredAreaLight,
                           !.rotated = (IF b = "light" THEN h.hovered ELSE "none"),
                           !.modelUpdated = m]
  /\ UNCHANGED <<isAreaLightDragging, dragLight, background, camera, channelVars>>
  /\ Ray(currentHoveredAreaLight')

MouseMove(p, pick) ==
  /\ Tick
  /\ LET h == updateAreaLightHover(pick)
         b == mousemoveBranch(h)
         rotationDeltaX == (p[1] - areaLightDragStartPosition[1]) * AREA_LIGHT_ROTATION_SENSITIVITY
         rotationDeltaY == (p[2] - areaLightDragStartPosition[2]) * AREA_LIGHT_ROTATION_SENSITIVITY
     IN /\ currentMode' = h.mode
        /\ currentHoveredAreaLight' = h.hovered
        /\ highlighted' = h.highlighted
        /\ lights' = (IF b = "light"
                      THEN [lights EXCEPT ![h.hovered] =
                              AreaLight_rotate(@, rotationDeltaX, rotationDeltaY)]
                      ELSE lights)
        /\ areaLightDragStartPosition' = (IF b = "light" THEN p ELSE areaLightDragStartPosition)
        /\ model' = (IF b = "model"
                     THEN [model EXCEPT !.rotation =
                             updateDrag_rotation(rotationController, @, p)]
                     ELSE model)
        /\ rotationController' = (IF b = "model" THEN updateDrag(rotationController, p)
                                  ELSE rotationController)
        /\ lastEvent' = [Ev("mousemove") EXCEPT
                           !.from = currentHoveredAreaLight,
                           !.rotated = (IF b = "light" THEN h.hovered ELSE "none"),
                           !.modelUpdated = (b = "model")]
  /\ UNCHANGED <<isAreaLightDragging, dragLight, background, camera, channelVars>>
  /\ Ray(currentHoveredAreaLight')

\* mouseup: "light" ends the light drag, "model" ends the model drag
mouseupBranch ==
  IF isAreaLightDragging THEN "light"
  ELSE IF isCurrentlyDragging /\ isModelRotationMode THEN "model"
  ELSE "none"

MouseUp(p) ==
  /\ Tick
  /\ LET b == mouseupBranch
     IN /\ isAreaLightDragging' = (IF b = "light" THEN FALSE ELSE isAreaLightDragging)
        /\ dragLight' = (IF b = "light" THEN "none" ELSE dragLight)
        /\ rotationController' = (IF b = "model" THEN endDrag(rotationController, p)
                                  ELSE rotationController)
  /\ lastEvent' = Ev("mouseup")
  /\ UNCHANGED <<currentMode, currentHoveredAreaLight, areaLightDragStartPosition, highlighted>>
  /\ UNCHANGED <<sceneVars, channelVars>>
  /\ Ray(underPointer)

\* faulty variant: like the release, the leave ends the model drag only in model
\* rotation mode
MouseLeave_LikeRelease ==
  /\ Tick
  /\ isAreaLightDragging' = FALSE
  /\ dragLight' = "none"
  /\ rotationController' = (IF isCurrentlyDragging /\ isModelRotationMode
                            THEN stopDrag(rotationController)
                            ELSE rotationController)
  /\ lastEvent' = Ev("mouseleave")
  /\ UNCHANGED <<currentMode, currentHoveredAreaLight, areaLightDragStartPosition, highlighted>>
  /\ UNCHANGED <<sceneVars, channelVars>>
  /\ Ray(underPointer)

MouseLeave ==
  /\ Tick
  /\ isAreaLightDragging' = FALSE
  /\ dragLight' = "none"
  /\ rotationController' = (IF isCurrentlyDragging THEN stopDrag(rotationController)
                            ELSE rotationController)
  /\ lastEvent' = Ev("mouseleave")
  /\ UNCHANGED <<currentMode, currentHoveredAreaLight, areaLightDragStartPosition, highlighted>>
  /\ UNCHANGED <<sceneVars, channelVars>>
  /\ Ray(underPointer)

\* wheel: "light" dollies the hovered light, "camera" goes to the camera controller
wheelBranch ==
  IF isAreaLightMode /\ currentHoveredAreaLight # "none" THEN "light"
  ELSE IF isModelRotationMode THEN "camera"
  ELSE "none"

Wheel(deltaY, shiftKey) ==
  /\ Tick
  /\ LET b == wheelBranch
         dollyDelta == IF deltaY > 0 THEN -AREA_LIGHT_DOLLY_SENSITIVITY
                       ELSE AREA_LIGHT_DOLLY_SENSITIVITY
     IN /\ lights' = (IF b = "light"
                      THEN [lights EXCEPT ![currentHoveredAreaLight] = AreaLight_dolly(@, dollyDelta)]
                      ELSE lights)
        /\ camera' = (IF b = "camera" THEN handleWheel(camera, deltaY, shiftKey) ELSE camera)
  /\ lastEvent' = Ev("wheel")
  /\ UNCHANGED <<interactionVars, rotationController, model, background, dragLight, channelVars>>
  /\ Ray(underPointer)

\* faulty variant: the pinch starts and a model drag under way goes on
TouchStartTwo_KeepsDrag(touches) ==
  /\ Tick
  /\ camera' = startPinchZoom(camera, touches[1], touches[2])
  /\ lastEvent' = Ev("touchstart2")
  /\ UNCHANGED <<interactionVars, rotationController, model, background, lights, dragLight,
                 channelVars>>
  /\ Ray(underPointer)

\* touchstart with two touches: pinch start, the model drag is stopped
TouchStartTwo(touches) ==
  /\ Tick
  /\ camera' = startPinchZoom(camera, touches[1], touches[2])
  /\ rotationController' = stopDrag(rotationController)
  /\ lastEvent' = Ev("touchstart2")
  /\ UNCHANGED <<interactionVars, model, background, lights, dragLight, channelVars>>
  /\ Ray(underPointer)

\* touchstart with one touch: a model drag, in model rotation mode only
TouchStartOne(p) ==
  /\ Tick
  /\ rotationController' = (IF isModelRotationMode THEN beginDrag(rotationController, p)
                            ELSE rotationController)
  /\ lastEvent' = [Ev("touchstart1") EXCEPT !.startedModel = isModelRotationMode]
  /\ UNCHANGED <<interactionVars, sceneVars, dragLight, channelVars>>
  /\ Ray(underPointer)

\* touchmove with two touches: pinch update
TouchMoveTwo(touches) ==
  /\ Tick
  /\ camera' = updatePinchZoom(camera, touches[1], touches[2])
  /\ lastEvent' = Ev("touchmove2")
  /\ UNCHANGED <<interactionVars, rotationController, model, background, lights,
                 dragLight, channelVars>>
  /\ Ray(underPointer)

\* touchmove with one touch: updates a running model drag
TouchMoveOne(p) ==
  /\ Tick
  /\ model' = (IF isCurrentlyDragging
               THEN [model EXCEPT !.rotation = updateDrag_rotation(rotationController, @, p)]
               ELSE model)
  /\ rotationController' = (IF isCurrentlyDragging THEN updateDrag(rotationController, p)
                            ELSE rotationController)
  /\ lastEvent' = [Ev("touchmove1") EXCEPT !.modelUpdated = isCurrentlyDragging]
  /\ UNCHANGED <<interactionVars, background, lights, camera, dragLight, channelVars>>
  /\ Ray(underPointer)

\* touchend: endDrag for one changed touch, stopDrag otherwise
TouchEnd(p, changedTouches) ==
  /\ Tick
  /\ rotationController' = (IF changedTouches = 1 THEN endDrag(rotationController, p)
                            ELSE stopDrag(rotationController))
  /\ lastEvent' = Ev("touchend")
  /\ UNCHANGED <<interactionVars, sceneVars, dragLight, channelVars>>
  /\ Ray(underPointer)

(***************************************************************************)
(* The remote channel                                                      *)
(***************************************************************************)
\* faulty variant: a connection opens although no client was created
ChannelOpen_WithoutClient ==
  /\ ~connected
  /\ connected' = TRUE
  /\ UNCHANGED <<interactionVars, rotationController, sceneVars, wsClient, sentCount,
                 lastSent, steps, lastEvent, dragLight, expected, ready, underPointer, app>>

\* WebSocketClient: the connection opens
ChannelOpen ==
  /\ wsClient /\ ~connected
  /\ connected' = TRUE
  /\ UNCHANGED <<interactionVars, rotationController, sceneVars, wsClient, sentCount,
                 lastSent, steps, lastEvent, dragLight, expected, ready, underPointer, app>>

\* WebSocketClient: the connection closes
ChannelClose ==
  /\ wsClient /\ connected
  /\ connected' = FALSE
  /\ UNCHANGED <<interactionVars, rotationController, sceneVars, wsClient, sentCount,
                 lastSent, steps, lastEvent, dragLight, expected, ready, underPointer, app>>

\* a command the router counts as mutating: registered, not get*, not toolCall
IsMutating(command) ==
  /\ ~startsWithGet(command.type)
  /\ command.type # "toolCall"
  /\ commandHandlers(command, Scene) # NoHandler

\* faulty variant: the snapshot is built before the handler runs
Command_SnapshotBeforeHandler(command) ==
  /\ Tick
  /\ wsClient
  /\ \E r \in {handleWebSocketCommand(command, Scene)} :
        LET push == r.send /\ sendStateUpdate
        IN
        /\ model' = r.S.model
        /\ background' = r.S.background
        /\ lights' = r.S.lights
        /\ camera' = r.S.camera
        /\ sentCount' = (IF push THEN sentCount + 1 ELSE sentCount)
        /\ lastSent' = (IF push THEN getSceneState(Scene) ELSE lastSent)
        /\ lastEvent' = [Ev("command") EXCEPT
                           !.kind = (IF startsWithGet(command.type) THEN "getter"
                                     ELSE IF command.type = "toolCall" THEN "toolCall"
                                     ELSE "other"),
                           !.outcome = r.outcome, !.sent = push]
  /\ expected' = (IF connected /\ IsMutating(command) THEN expected + 1 ELSE expected)
  /\ UNCHANGED <<interactionVars, rotationController, wsClient, connected, dragLight>>
  /\ Ray(underPointer)

\* the WebSocketClient hands an inbound command to _handleWebSocketCommand
Command(command) ==
  /\ Tick
  /\ wsClient
  /\ \E r \in {handleWebSocketCommand(command, Scene)} :
        LET push == r.send /\ sendStateUpdate
        IN
        /\ model' = r.S.model
        /\ background' = r.S.background
        /\ lights' = r.S.lights
        /\ camera' = r.S.camera
        /\ sentCount' = (IF push THEN sentCount + 1 ELSE sentCount)
        /\ lastSent' = (IF push THEN getSceneState(r.S) ELSE lastSent)
        /\ lastEvent' = [Ev("command") EXCEPT
                           !.kind = (IF startsWithGet(command.type) THEN "getter"
                                     ELSE IF command.type = "toolCall" THEN "toolCall"
                                     ELSE "other"),
                           !.outcome = r.outcome, !.sent = push]
  /\ expected' = (IF connected /\ IsMutating(command) THEN expected + 1 ELSE expected)
  /\ UNCHANGED <<interactionVars, rotationController, wsClient, connected, dragLight>>
  /\ Ray(underPointer)

\* the arguments the operations of a light are called with
AzimuthInputs ==
  {Num(0), Num(900), Num(1900), Str(<<"N", "W">>), Str(<<"9", "0">>),
   Str(<<"u", "p", "w", "a", "r", "d">>), Undefined, Null}

TargetInputs ==
  {Num(2000), Num(-100), Str(<<"S", "W">>), Str(<<"2", "0", "0">>),
   Str(<<"7", "0", "0">>), Str(<<"u", "p">>), Undefined, Null,
   Arr(<< <<"9", "0">> >>)}

\* directions as callers spell them: names in mixed case with spaces, hyphens and
\* periods, strings that name no direction, and whole degrees below 0 and from 360
DirectionInputs ==
  {Str(<<"N", "o", "r", "t", "h", "w", "e", "s", "t">>),
   Str(<<"n", "o", "r", "t", "h", "-", "w", "e", "s", "t">>),
   Str(<<"N", ".", "N", ".", "E", ".">>),
   Str(<<" ", "S", "o", "u", "t", "h", " ", "E", "a", "s", "t", " ">>),
   Str(<<"e", "S", "e">>),
   Str(<<"n", "o", "r", "t", "h", "-", "n", "o", "r", "t", "h", "e", "a", "s", "t">>),
   Str(<<"n", "n", "n">>),
   Str(<<"n", "/", "w">>),
   Str(<<>>),
   Num(-900), Num(-3600), Num(-7250), Num(3600), Num(7250)}

LightOps ==
  {<<"setPositionSpherical", a, e>> : a \in AzimuthInputs, e \in {0, 450, 900}}
    \cup {<<"setPositionSpherical", a, 300>> : a \in DirectionInputs}
    \cup {<<"setDistance", d>> : d \in {0, 50, 1000}}
    \cup {<<"rotateClockwise", g>> : g \in {100, 1500}}
    \cup {<<"rotateCounterclockwise", g>> : g \in {100, 2300}}
    \cup {<<"nudgeElevationUp", g>> : g \in {-500, 50, 700}}
    \cup {<<"nudgeElevationDown", g>> : g \in {50, 300}}
    \cup {<<"moveTowardDirection", t, g>> : t \in TargetInputs, g \in {0, 100, 500}}
    \cup {<<"rotate", 50000, 25000>>, <<"rotate", -50000, 0>>}
    \cup {<<"dolly", delta>> : delta \in {-1000, -100, 100, 1000}}
    \cup {<<"setPositionCartesian", [az |-> 450, el |-> 300, r |-> 500]>>}

\* one call of an operation of a light, with what it returned
applyLightOp(light, op) ==
  LET returned(r) == [threw |-> FALSE, light |-> r]
  IN CASE op[1] = "setPositionSpherical" -> AreaLight_setPositionSpherical(light, op[2], op[3])
       [] op[1] = "setDistance" -> returned(AreaLight_setDistance(light, op[2]))
       [] op[1] = "rotateClockwise" -> AreaLight_rotateClockwise(light, op[2])
       [] op[1] = "rotateCounterclockwise" -> AreaLight_rotateCounterclockwise(light, op[2])
       [] op[1] = "nudgeElevationUp" -> AreaLight_nudgeElevationUp(light, op[2])
       [] op[1] = "nudgeElevationDown" -> AreaLight_nudgeElevationDown(light, op[2])
       [] op[1] = "moveTowardDirection" -> AreaLight_moveTowardDirection(light, op[2], op[3])
       [] op[1] = "rotate" -> returned(AreaLight_rotate(light, op[2], op[3]))
       [] op[1] = "dolly" -> returned(AreaLight_dolly(light, op[2]))
       [] op[1] = "setPositionCartesian" -> returned(AreaLight_setPositionCartesian(light, op[2]))

LightOp(l, op) ==
  /\ Tick
  /\ \E r \in {applyLightOp(lights[l], op)} :
        /\ lights' = [lights EXCEPT ![l] = r.light]
        /\ lastEvent' = [Ev("lightOp") EXCEPT
                           !.light = l, !.op = op, !.was = lights[l].pos,
                           !.outcome = (IF r.threw THEN "threw" ELSE "returned")]
  /\ UNCHANGED <<interactionVars, rotationController, model, background, camera,
                 dragLight, channelVars>>
  /\ Ray(underPointer)

\* the SceneManager methods called while Application.init is under way
StartupCalls == CameraCommands \cup ModelCommands \cup QueryCommands \cup LightMoveCommands("Key")

\* the reference a SceneManager method tests before it acts ("none": no test;
\* this.camera, tested by the camera and light position methods, is always set)
guardOf(type) ==
  IF type \in {c.type : c \in LightCommands("Key") \cup LightCommands("Fill")} THEN "lights"
  ELSE IF type \in {"getModelColor", "getModelScale"} THEN "model"
  ELSE IF type = "getBackgroundColor" THEN "scene"
  ELSE IF type \in {c.type : c \in ModelCommands} \ {"changeColor", "changeSize", "scaleModel",
                                                       "changeBackgroundColor"}
          \/ type = "getModelRotation" THEN "rotationController"
  ELSE "none"

\* the reference a SceneManager method goes through once its test has passed
usedBy(type) ==
  IF type \in {c.type : c \in CameraCommands} \cup {"getCameraDistance", "getCameraFOV"}
  THEN "cameraController"
  ELSE IF type \in {"changeColor", "changeSize", "scaleModel"} THEN "model"
  ELSE IF type = "changeBackgroundColor" THEN "scene"
  ELSE guardOf(type)

\* Application.init sets the next reference
Initialize ==
  /\ ready # References
  /\ ready' = ready \cup {InitOrder[Cardinality(ready) + 1]}
  /\ UNCHANGED <<interactionVars, rotationController, sceneVars, channelVars, steps,
                 lastEvent, dragLight, underPointer, app>>

\* the asset load resolves: init runs from its await to its end in one turn; the
\* lights and the remaining references are set, the channel client is created
\* if the page has a session id, the listeners are registered, the loop starts
ModelLoaded(sessionId) ==
  /\ app.phase = "loading"
  /\ app' = Running
  /\ ready' = References
  /\ wsClient' = sessionId
  /\ UNCHANGED <<interactionVars, rotationController, sceneVars, connected, sentCount,
                 lastSent, expected, steps, lastEvent, dragLight, underPointer>>

\* faulty variant: the failure is caught and init goes on to its end
ModelLoadFailed_CaughtAndContinued ==
  /\ app.phase = "loading"
  /\ app' = [Running EXCEPT !.phase = "failed"]
  /\ wsClient' = TRUE
  /\ UNCHANGED <<interactionVars, rotationController, sceneVars, connected, sentCount,
                 lastSent, expected, steps, lastEvent, dragLight, underPointer, ready>>

\* the asset load fails: the load promise rejects and with it initialize and
\* init, whose remaining statements never run
ModelLoadFailed ==
  /\ app.phase = "loading"
  /\ app' = Failed
  /\ UNCHANGED <<interactionVars, rotationController, sceneVars, channelVars, steps,
                 lastEvent, dragLight, underPointer, ready>>

\* the SceneManager method behind a command's handler is called: it returns its
\* default when the reference it tests is null, it throws a TypeError when it
\* goes through a reference that is null, else it acts
SceneCall(command) ==
  /\ Tick
  /\ \E r \in {IF guardOf(command.type) \notin ready \cup {"none"}
                THEN [outcome |-> "default", S |-> Scene]
                ELSE IF usedBy(command.type) \notin ready
                THEN [outcome |-> "threw", S |-> Scene]
                ELSE LET h == commandHandlers(command, Scene)
                     IN [outcome |-> (IF h.threw THEN "threw" ELSE "ok"), S |-> h.S]} :
        /\ model' = r.S.model
        /\ background' = r.S.background
        /\ lights' = r.S.lights
        /\ camera' = r.S.camera
        /\ lastEvent' = [Ev("sceneCall") EXCEPT !.outcome = r.outcome, !.op = <<command.type>>]
  /\ UNCHANGED <<interactionVars, rotationController, channelVars, dragLight>>
  /\ Ray(underPointer)

(***************************************************************************)
(* Specifications                                                          *)
(***************************************************************************)
\* the command router and the channel
InitRouter == InitBase /\ steps = MaxCommands /\ ready = References

NextRouter ==
  \/ \E command \in Commands : Command(command)
  \/ ChannelOpen
  \/ ChannelClose

SpecRouter == InitRouter /\ [][NextRouter]_vars

\* pointer and touch input
InitPointer == InitBase /\ steps = MaxPointerEvents /\ ready = References

NextPointer ==
  \/ \E p \in PointerPositions : MouseDown(p)
  \/ \E p \in PointerPositions, pick \in PickResults : MouseMove(p, pick)
  \/ \E p \in PointerPositions : MouseUp(p)
  \/ MouseLeave
  \/ \E p \in PointerPositions : TouchStartOne(p)
  \/ \E t \in TouchPairs : TouchStartTwo(t)
  \/ \E p \in PointerPositions : TouchMoveOne(p)
  \/ \E p \in PointerPositions, n \in {1, 2} : TouchEnd(p, n)

SpecPointer == InitPointer /\ [][NextPointer]_vars

\* the camera: remote camera commands, wheel and pinch, with the hover test
\* deciding where a wheel event goes
InitCamera == InitBase /\ steps = MaxCameraEvents /\ ready = References

NextCamera ==
  \/ \E command \in CameraCommands : Command(command)
  \/ \E deltaY \in {-100, 100}, shiftKey \in BOOLEAN : Wheel(deltaY, shiftKey)
  \/ \E t \in TouchPairs : TouchStartTwo(t)
  \/ \E t \in TouchPairs : TouchMoveTwo(t)
  \/ \E p \in PointerPositions, pick \in PickResults : MouseMove(p, pick)
  \/ ChannelOpen

SpecCamera == InitCamera /\ [][NextCamera]_vars

\* the lights: remote light commands, wheel dolly of the hovered light and drags
InitLights == InitBase /\ steps = MaxLightEvents /\ ready = References

NextLights ==
  \/ \E command \in LightMoveCommands("Key") \cup LightMoveCommands("Fill") : Command(command)
  \/ \E deltaY \in {-100, 100} : Wheel(deltaY, FALSE)
  \/ \E p \in PointerPositions, pick \in PickResults : MouseMove(p, pick)
  \/ \E p \in PointerPositions : MouseDown(p)

SpecLights == InitLights /\ [][NextLights]_vars

\* the operations of one light, called directly with arguments from small sets
InitLightOps == InitBase /\ steps = MaxLightOps /\ ready = References

NextLightOps == \E l \in LightNames, op \in LightOps : LightOp(l, op)

SpecLightOps == InitLightOps /\ [][NextLightOps]_vars

\* Application.init from its call on: init is awaiting the asset load, the scene
\* and the Model object exist, nothing else does
InitLoading ==
  /\ currentMode = MODEL_ROTATION
  /\ currentHoveredAreaLight = "none"
  /\ isAreaLightDragging = FALSE
  /\ areaLightDragStartPosition = <<0, 0>>
  /\ highlighted = [l \in LightNames |-> FALSE]
  /\ rotationController = [isDragging |-> FALSE, anchor |-> <<0, 0>>]
  /\ model = [color |-> SNOW, scale |-> <<MODEL_SIZE, MODEL_SIZE, MODEL_SIZE>>,
              rotation |-> <<0, 0, 0>>]
  /\ background = -1
  /\ lights = InitialLights
  /\ camera = [distance |-> INITIAL_DISTANCE, zoom |-> 100,
               initialPinchDistance |-> 0, initialCameraDistance |-> INITIAL_DISTANCE]
  /\ wsClient = FALSE
  /\ connected = FALSE
  /\ sentCount = 0
  /\ lastSent = NoSnapshot
  /\ lastEvent = Ev("init")
  /\ dragLight = "none"
  /\ expected = 0
  /\ underPointer = "none"
  /\ app = Loading
  /\ ready = {"scene", "model"}
  /\ steps = MaxEventsAfterInit

\* the canvas delivers an event only to a listener that was registered
listening == app.listening

NextInit ==
  \/ \E sessionId \in BOOLEAN : ModelLoaded(sessionId)
  \/ ModelLoadFailed
  \/ ChannelOpen
  \/ \E command \in CameraCommands : Command(command)
  \/ listening /\ \E p \in PointerPositions : MouseDown(p)
  \/ listening /\ \E p \in PointerPositions, pick \in PickResults : MouseMove(p, pick)
  \/ listening /\ \E deltaY \in {-100, 100}, shiftKey \in BOOLEAN : Wheel(deltaY, shiftKey)
  \/ listening /\ \E t \in TouchPairs : TouchStartTwo(t)
  \/ listening /\ \E t \in TouchPairs : TouchMoveTwo(t)

SpecInit == InitLoading /\ [][NextInit]_vars

\* the SceneManager from its constructor on, its methods called at every stage
InitStartup == InitBase /\ steps = MaxStartupCalls /\ ready = {}

NextStartup ==
  \/ Initialize
  \/ \E command \in StartupCalls : SceneCall(command)

SpecStartup == InitStartup /\ [][NextStartup]_vars

(***************************************************************************)
(* Properties                                                              *)
(***************************************************************************)
\* C1: while the channel is open every handled command that has a registered
\* handler, is no get* query and no toolCall pushes exactly one snapshot, so the
\* number of snapshots pushed equals the number of such commands handled.
C1_OneSnapshotPerMutatingCommand == sentCount = expected

\* C2: handling a get* query or a toolCall notification pushes no snapshot and
\* leaves model, lights, camera and background as they were.
C2_QueriesAndNotificationsPushNothing ==
  [][(steps' # steps /\ lastEvent'.ev = "command"
        /\ lastEvent'.kind \in {"getter", "toolCall"})
       => /\ sentCount' = sentCount
          /\ lastSent' = lastSent
          /\ model' = model
          /\ lights' = lights
          /\ camera' = camera
          /\ background' = background]_vars

\* a query handled while the channel is open, after a command that did push
C2_QueryHandledWhileOpen ==
  /\ lastEvent.ev = "command"
  /\ lastEvent.kind = "getter"
  /\ lastEvent.outcome = "ok"
  /\ connected
  /\ sentCount = 1

\* C3: a command whose type is not in the handler table is reported unknown (no
\* exception), changes nothing in the scene and pushes no snapshot.
C3_UnknownCommandIsIgnored ==
  [][/\ \A command \in UnknownCommands :
          Command(command) => lastEvent'.outcome = "unknown"
     /\ (steps' # steps /\ lastEvent'.ev = "command" /\ lastEvent'.outcome = "unknown")
          => /\ sentCount' = sentCount
             /\ lastSent' = lastSent
             /\ model' = model
             /\ lights' = lights
             /\ camera' = camera
             /\ background' = background]_vars

\* an unknown command arrived on an open channel that had already pushed
C3_UnknownCommandWhileOpen ==
  /\ lastEvent.ev = "command"
  /\ lastEvent.outcome = "unknown"
  /\ lastEvent.kind = "other"
  /\ connected
  /\ sentCount = 1

\* C4: the mode is one of the two modes, MODEL_ROTATION at start, and it is
\* AREA_LIGHT_MANIPULATION exactly while some light is the hover target.
C4_ModeFollowsHover ==
  /\ currentMode \in {MODEL_ROTATION, AREA_LIGHT_MANIPULATION}
  /\ currentHoveredAreaLight \in PickResults
  /\ lastEvent.ev = "init" => currentMode = MODEL_ROTATION
  /\ currentMode = AREA_LIGHT_MANIPULATION <=> currentHoveredAreaLight # "none"

\* the pointer left the key light's proxy for empty space
C4_LeftTheProxy ==
  /\ lastEvent.ev = "mousemove"
  /\ lastEvent.from = "key"
  /\ currentHoveredAreaLight = "none"
  /\ currentMode = MODEL_ROTATION

\* C5: a light is highlighted exactly when it is the hover target, so at most one
\* is, none when the pointer is off every proxy, and a move from the key light
\* straight to the fill light leaves only the fill light highlighted.
C5_OnlyHoverTargetHighlighted ==
  \A l \in LightNames : highlighted[l] <=> currentHoveredAreaLight = l

\* the pointer went from the key light's proxy straight to the fill light's
C5_KeyToFill ==
  /\ lastEvent.ev = "mousemove"
  /\ lastEvent.from = "key"
  /\ currentHoveredAreaLight = "fill"
  /\ highlighted["fill"]

\* C6: a light drag and a model drag are never active at the same time.
C6_DragSessionsExclusive == ~(isAreaLightDragging /\ rotationController.isDragging)

\* C7: right after a mouseup neither a light drag nor a model drag is active.
C7_ReleaseEndsEveryDrag ==
  lastEvent.ev = "mouseup" => ~isAreaLightDragging /\ ~rotationController.isDragging

\* C8: a mouse press starts a light drag exactly when the mode is
\* AREA_LIGHT_MANIPULATION with a hover target, a model drag exactly when the mode
\* is MODEL_ROTATION, and never both.
C8_PressStartsTheModesDrag ==
  [][(steps' # steps /\ lastEvent'.ev = "mousedown")
       => /\ lastEvent'.startedLight
               <=> (currentMode = AREA_LIGHT_MANIPULATION /\ currentHoveredAreaLight # "none")
          /\ lastEvent'.startedModel <=> currentMode = MODEL_ROTATION
          /\ ~(lastEvent'.startedLight /\ lastEvent'.startedModel)
          /\ lastEvent'.startedLight => isAreaLightDragging'
          /\ lastEvent'.startedModel => rotationController'.isDragging
          /\ ~lastEvent'.startedLight => isAreaLightDragging' = isAreaLightDragging
          /\ ~lastEvent'.startedModel => rotationController' = rotationController]_vars

\* a press on the key light's proxy started a light drag
C8_PressOnKeyLight ==
  /\ lastEvent.ev = "mousedown"
  /\ lastEvent.startedLight
  /\ isAreaLightDragging
  /\ dragLight = "key"

\* C9: while the light drag that a press started on light L is active, pointer
\* moves change no light but L.
C9_DragRotatesOnlyItsLight ==
  [][(isAreaLightDragging /\ dragLight # "none")
       => \A l \in LightNames \ {dragLight} : lights'[l] = lights[l]]_vars

\* C10: camera distance stays within [8, 64] and the FOV scale within [0.5, 5.0]
\* under remote camera commands, wheel events and pinch updates, and
\* dollyCamera(100) leaves the distance at 64.
C10_CameraStaysInRange ==
  /\ [](camera.distance \in 800..6400 /\ camera.zoom \in 50..500)
  /\ [][Command([type |-> "dollyCamera", distance |-> Num(10000)])
          => camera'.distance = 6400]_vars

\* a wheel event left the camera at the upper distance limit
C10_WheelAtUpperLimit ==
  /\ lastEvent.ev = "wheel"
  /\ camera.distance = MAX_DISTANCE

\* C11: in every reachable state the spherical position read back from each light
\* has its azimuth in [0, 360), its elevation in [0, 90] and a distance of at least 0
C11_ReadBackInRange ==
  \A l \in LightNames :
    LET p == AreaLight_getPositionSpherical(lights[l])
    IN /\ p.azimuth >= 0 /\ p.azimuth < 3600
       /\ p.elevation >= 0 /\ p.elevation <= 900
       /\ p.distance >= 0

\* the light operation the last step called, "" when the step was not one
calledOp == IF lastEvent'.ev = "lightOp" THEN lastEvent'.op[1] ELSE ""

\* the light the last step's operation was called on, before and after the call
readBefore == AreaLight_getPositionSpherical(lights[lastEvent'.light])
readAfter == AreaLight_getPositionSpherical(lights'[lastEvent'.light])

\* C12: every operation that changes a light's position or its rig rotation
\* orients the light at its target before it returns, so in every reachable
\* state each light is oriented from the pose it now has
C12_LightFacesItsTarget == \A l \in LightNames : lights[l].aim = pose(lights[l])

C12_TurnedAndMoved ==
  \E l \in LightNames :
    /\ lights[l].rotY # InitialLights[l].rotY
    /\ lights[l].pos # InitialLights[l].pos
    /\ lastEvent.ev = "lightOp" /\ lastEvent.light = l

\* the operations that set azimuth and elevation and are to keep the distance
AngularOps ==
  {"setPositionSpherical", "rotateClockwise", "rotateCounterclockwise",
   "nudgeElevationUp", "nudgeElevationDown", "moveTowardDirection"}

\* C13 as stated: setPositionSpherical and every relative adjustment leave the
\* distance read back equal to the distance read back before, in every light state
C13_DistanceKeptEverywhere ==
  [][(calledOp \in AngularOps) => readAfter.distance = readBefore.distance]_vars

\* C13 amended: setPositionSpherical and every relative adjustment of a light that
\* is not on the pivot leave the distance read back equal to the distance before
C13_DistanceKeptOffThePivot ==
  [][(calledOp \in AngularOps) /\ readBefore.distance > 0
       => readAfter.distance = readBefore.distance]_vars

C13_AdjustedOffThePivot ==
  /\ lastEvent.ev = "lightOp" /\ lastEvent.op[1] \in AngularOps
  /\ lastEvent.outcome = "returned"
  /\ lastEvent.was.r > 0 /\ lastEvent.was.r # InitialLights[lastEvent.light].pos.r
  /\ lights[lastEvent.light].pos # lastEvent.was

\* C14 as stated: setDistance(d) with d >= 0 makes the distance read back d and
\* leaves the azimuth and elevation read back as they were
C14_SetDistanceKeepsAnglesFromZero ==
  [][calledOp = "setDistance" /\ lastEvent'.op[2] >= 0
       => /\ readAfter.distance = lastEvent'.op[2]
          /\ readAfter.azimuth = readBefore.azimuth
          /\ readAfter.elevation = readBefore.elevation]_vars

\* C14 amended: setDistance(d) with d > 0 makes the distance read back d and
\* leaves the azimuth and elevation read back as they were
C14_SetDistanceKeepsAngles ==
  [][calledOp = "setDistance" /\ lastEvent'.op[2] > 0
       => /\ readAfter.distance = lastEvent'.op[2]
          /\ readAfter.azimuth = readBefore.azimuth
          /\ readAfter.elevation = readBefore.elevation]_vars

C14_DistanceSetAfterTurn ==
  /\ lastEvent.ev = "lightOp" /\ lastEvent.op[1] = "setDistance" /\ lastEvent.op[2] > 0
  /\ lastEvent.was.r # lastEvent.op[2]
  /\ lastEvent.was.az # InitialLights[lastEvent.light].pos.az
  /\ lights[lastEvent.light].pos.r = lastEvent.op[2]

\* C15: a light at distance D > 0 that is dollied by d1 and then by d2, with
\* D + d1 + d2 >= 0, ends at distance D + d1 + d2 on the radial direction it
\* started on
C15_TwoDolliesAddUp ==
  [][(/\ calledOp = "dolly"
      /\ lastEvent.ev = "lightOp" /\ lastEvent.op[1] = "dolly"
      /\ lastEvent.light = lastEvent'.light
      /\ lastEvent.was.r > 0
      /\ lastEvent.was.r + lastEvent.op[2] + lastEvent'.op[2] >= 0)
       => lights'[lastEvent'.light].pos =
            Polar(lastEvent.was.az, lastEvent.was.el,
                  lastEvent.was.r + lastEvent.op[2] + lastEvent'.op[2])]_vars

\* the azimuth in [0, 360) a target names: a number, a direction name or a
\* numeric string; Null for anything else
targetOf(t) ==
  IF directionToAzimuthAngle(t) # Null THEN directionToAzimuthAngle(t)
  ELSE IF t.t = "str" /\ parseFloat(t.s) # Null THEN Num(parseFloat(t.s).n % 3600)
  ELSE Null

\* where a light at azimuth c ends when it moves by at most g toward azimuth t
\* along the shorter arc (either way when t is opposite)
arrivals(c, t, g) ==
  LET ahead == (t - c) % 3600
      behind == (c - t) % 3600
  IN (IF ahead <= behind THEN {(c + Min(ahead, g)) % 3600} ELSE {})
       \cup (IF behind <= ahead THEN {(c - Min(behind, g)) % 3600} ELSE {})

\* C16: moveTowardDirection(t, g) with g >= 0, on a light that has an azimuth
\* (off the pole), moves the azimuth along the shorter arc toward t by the
\* smaller of g and the angular distance: it lands on t when g reaches it and
\* never passes it
C16_MovesAlongShorterArc ==
  [][(/\ calledOp = "moveTowardDirection"
      /\ targetOf(lastEvent'.op[2]) # Null
      /\ lastEvent'.op[3] >= 0
      /\ readBefore.elevation \notin {-900, 900})
       => readAfter.azimuth \in
            arrivals(readBefore.azimuth, targetOf(lastEvent'.op[2]).n, lastEvent'.op[3])]_vars

setsSpherical(lo, hi) ==
  /\ calledOp = "setPositionSpherical"
  /\ lastEvent'.op[2].t = "num"
  /\ lastEvent'.op[2].n >= 0 /\ lastEvent'.op[2].n < 3600
  /\ lastEvent'.op[3] >= lo /\ lastEvent'.op[3] <= hi

\* the spherical position read back is the one that was set, at the distance used
readsBackWhatWasSet ==
  /\ readAfter.azimuth = lastEvent'.op[2].n
  /\ readAfter.elevation = lastEvent'.op[3]
  /\ readAfter.distance = (IF readBefore.distance > 0 THEN readBefore.distance ELSE 100)

C19_RouterNeverThrows == lastEvent.ev = "command" => lastEvent.outcome # "threw"

\* azimuth arguments that are neither a number nor a name of the direction table
InvalidAzimuths ==
  {Str(<<"u", "p", "w", "a", "r", "d">>), Str(<<"9", "0">>), Undefined, Null}

\* C20: setPositionSpherical with an azimuth that is not a number and not a known
\* direction name throws, and the light is as it was before the call
C20_InvalidAzimuthThrows ==
  [][(calledOp = "setPositionSpherical" /\ lastEvent'.op[2] \in InvalidAzimuths)
       => /\ lastEvent'.outcome = "threw"
          /\ \A a \in InvalidAzimuths :
               sphericalToCartesian(a, lastEvent'.op[3], readBefore.distance).threw
          /\ lights' = lights]_vars

C20_ThrewAfterMove ==
  /\ lastEvent.ev = "lightOp" /\ lastEvent.op[1] = "setPositionSpherical"
  /\ lastEvent.op[2] \in InvalidAzimuths
  /\ lastEvent.outcome = "threw"
  /\ lights[lastEvent.light].pos # InitialLights[lastEvent.light].pos
  /\ lights[lastEvent.light].pos = lastEvent.was

\* the references a SceneManager method needs: the one it tests and the one it uses
needs(type) == {guardOf(type), usedBy(type)} \ {"none"}

\* C21: a SceneManager method called while a reference it needs is not yet set
\* raises nothing and leaves the scene as it was
C21_NoOpBeforeReady ==
  [][(lastEvent'.ev = "sceneCall" /\ steps' # steps /\ ~(needs(lastEvent'.op[1]) \subseteq ready))
       => lastEvent'.outcome = "default" /\ sceneVars' = sceneVars]_vars

\* this step handled an event of the given name
handled(ev) == steps' # steps /\ lastEvent'.ev = ev

\* C22: a mutating command handled while the channel is not open is applied to the
\* scene and pushes no snapshot; the opening of the channel pushes none either, so
\* every snapshot ever pushed belongs to a command handled on an open channel
C22_NoPushWhileClosed ==
  [][/\ (handled("command") /\ ~connected)
          => \A command \in {c \in Commands : ~startsWithGet(c.type) /\ c.type # "toolCall"} :
               (IsMutating(command) /\ Command(command))
                 => /\ Scene' = commandHandlers(command, Scene).S
                    /\ sentCount' = sentCount /\ lastSent' = lastSent
     /\ (~connected /\ connected') => (sentCount' = sentCount /\ lastSent' = lastSent)
     /\ sentCount' <= expected']_vars

\* a command changed the scene while the channel was closed, the channel has opened
\* since, and nothing was pushed
C22_OpenedAfterUnpushedChange ==
  connected /\ sentCount = 0 /\ lastEvent.ev = "command" /\ lastEvent.outcome = "ok"
  /\ lastEvent.kind = "other" /\ model.color # SNOW

\* C23: while the channel is open, after every event that changes the scene state
\* the snapshot pushed last equals the current scene state
C23_PushedViewIsCurrent ==
  [][(connected /\ connected' /\ getSceneState(Scene') # getSceneState(Scene))
       => lastSent' = getSceneState(Scene')]_vars

\* the light a per-light command names
lightOf(command) == IF command \in LightCommands("Key") THEN "key" ELSE "fill"

\* C24: every command of the per-light families has a handler; setKeyLightSize
\* and setFillLightSize set the width and height the snapshot reports for their
\* light and, on an open channel, push one snapshot
C24_LightFamiliesDispatched ==
  [][handled("command") =>
     \A command \in LightCommands("Key") \cup LightCommands("Fill") :
       Command(command)
         => /\ lastEvent'.outcome # "unknown"
            /\ (command.type \in {"setKeyLightSize", "setFillLightSize"})
                 => /\ Scene' = setLightSize(Scene, lightOf(command), command.width,
                                             command.height).S
                    /\ getSceneState(Scene')[lightOf(command) \o "Light"].size
                         = [width |-> command.width, height |-> command.height]
                    /\ connected => (sentCount' = sentCount + 1
                                     /\ lastSent' = getSceneState(Scene'))]_vars

\* the distance between the two touches of a pair
span(touches) == hypot(touches[2][1] - touches[1][1], touches[2][2] - touches[1][2])

\* C25: a pinch gesture records the camera distance and the span at its start, no
\* other event touches the two, and every update of the gesture sets the distance
\* to clamp(start distance + (start span - current span) * sensitivity), whatever
\* the updates before it did
C25_PinchMeasuredFromStart ==
  [][/\ handled("touchstart2")
          => \A t \in TouchPairs :
               TouchStartTwo(t) => /\ camera'.initialCameraDistance = camera.distance
                                   /\ camera'.initialPinchDistance = span(t)
                                   /\ camera'.distance = camera.distance
     /\ ~handled("touchstart2")
          => /\ camera'.initialCameraDistance = camera.initialCameraDistance
             /\ camera'.initialPinchDistance = camera.initialPinchDistance
     /\ handled("touchmove2")
          => \A t \in TouchPairs :
               TouchMoveTwo(t)
                 => camera'.distance
                 = Max(MIN_DISTANCE,
                       Min(MAX_DISTANCE,
                           camera.initialCameraDistance
                             + (camera.initialPinchDistance - span(t)) * PINCH_ZOOM_SENSITIVITY))]_vars

\* a gesture that began at span 100 from the initial distance has seen an update
\* before its latest one, which left the distance where the span 300 puts it
C25_SecondUpdateOfGesture ==
  /\ lastEvent.ev = "touchmove2" /\ steps = MaxCameraEvents - 3
  /\ camera.initialPinchDistance = 100 /\ camera.initialCameraDistance = INITIAL_DISTANCE
  /\ camera.distance = INITIAL_DISTANCE - 200 * PINCH_ZOOM_SENSITIVITY

WheelTicks == {-100, 100}

\* what a wheel tick does to the camera: without the modifier the distance moves
\* by the dolly step and is clamped, with it the FOV scale moves by the FOV step
\* and is clamped; scrolling down (deltaY > 0) dollies out and narrows the scale
tickApplied(deltaY, shiftKey) ==
  IF shiftKey
  THEN /\ camera'.zoom = Max(FOV_MIN, Min(FOV_MAX, camera.zoom
                                   + (IF deltaY > 0 THEN -FOV_SPEED ELSE FOV_SPEED)))
       /\ camera'.distance = camera.distance
  ELSE /\ camera'.distance = Max(MIN_DISTANCE, Min(MAX_DISTANCE, camera.distance
                                   + (IF deltaY > 0 THEN DOLLY_SPEED ELSE -DOLLY_SPEED)))
       /\ camera'.zoom = camera.zoom

C27_TwoTouchStartStopsDrag ==
  [][/\ handled("touchstart2") => ~rotationController'.isDragging
     /\ (handled("touchmove1") /\ ~rotationController.isDragging) => model' = model]_vars

\* three events: a drag began, turned the model, and a two-touch start ended it
C27_DragStoppedByTwoTouches ==
  /\ lastEvent.ev = "touchstart2" /\ steps = MaxPointerEvents - 3
  /\ model.rotation # <<0, 0, 0>> /\ ~rotationController.isDragging

\* C28: with no session token no client exists, so the channel is never open, no
\* snapshot is ever pushed and no event handler throws, whatever local events
\* are handled
C28_StandaloneStaysSilent ==
  ~wsClient => /\ ~connected
               /\ sentCount = 0 /\ lastSent = NoSnapshot
               /\ lastEvent.outcome # "threw"

\* standalone, all events spent, the last one a pinch update, and the camera has
\* been moved by the local events
C28_StandaloneAfterLocalEvents ==
  /\ ~wsClient /\ steps = 0 /\ lastEvent.ev = "touchmove2"
  /\ camera.distance # INITIAL_DISTANCE /\ camera.zoom # 100

\* the spellings of compass points among the inputs, with the azimuth each names
CompassSpellings ==
  {<<Str(<<"N", "o", "r", "t", "h", "w", "e", "s", "t">>), 3150>>, <<Str(<<"N", "W">>), 3150>>, <<Str(<<"n", "o", "r", "t", "h", "-", "w", "e", "s", "t">>), 3150>>, <<Str(<<"N", ".", "N", ".", "E", ".">>), 225>>,
   <<Str(<<" ", "S", "o", "u", "t", "h", " ", "E", "a", "s", "t", " ">>), 1350>>, <<Str(<<"e", "S", "e">>), 1125>>}

\* C29: a direction name gives its azimuth however it is spelled in case, spaces,
\* hyphens and periods, and setPositionSpherical puts the light there; a string
\* that names no compass point gives null, and setPositionSpherical throws
C29_NamesMapWhateverTheSpelling ==
  [][(calledOp = "setPositionSpherical" /\ lastEvent'.op[2].t = "str")
       => LET direction == lastEvent'.op[2]
              angle == directionToAzimuthAngle(direction)
          IN IF \E w \in CompassSpellings : w[1] = direction
             THEN /\ \A w \in CompassSpellings : w[1] = direction => angle = Num(w[2])
                  /\ lastEvent'.outcome = "returned"
                  /\ lastEvent'.op[3] < 900 => readAfter.azimuth = angle.n
             ELSE angle = Null /\ lastEvent'.outcome = "threw"]_vars

\* the light was sent to "north-west" and stands at azimuth 315
C29_SentNorthWest ==
  /\ lastEvent.ev = "lightOp" /\ lastEvent.outcome = "returned"
  /\ lastEvent.op = <<"setPositionSpherical", Str(<<"n", "o", "r", "t", "h", "-", "w", "e", "s", "t">>), 300>>
  /\ AreaLight_getPositionSpherical(lights[lastEvent.light]).azimuth = 3150

\* C30: a whole number of degrees, negative, zero or 360 and more, gives the
\* azimuth in [0, 360) congruent to it modulo 360, and setPositionSpherical puts
\* the light there
C30_NumbersFoldIntoRange ==
  [][(calledOp = "setPositionSpherical" /\ lastEvent'.op[2].t = "num")
       => LET n == lastEvent'.op[2].n
              angle == directionToAzimuthAngle(lastEvent'.op[2])
          IN /\ angle.t = "num" /\ angle.n \in 0..3599
             /\ \E k \in -3..3 : angle.n = n + k * 3600
             /\ lastEvent'.outcome = "returned"
             /\ lastEvent'.op[3] < 900 => readAfter.azimuth = angle.n]_vars

\* the light was sent to azimuth -725 and stands at azimuth 355
C30_SentBelowZero ==
  /\ lastEvent.ev = "lightOp" /\ lastEvent.outcome = "returned"
  /\ lastEvent.op = <<"setPositionSpherical", Num(-7250), 300>>
  /\ AreaLight_getPositionSpherical(lights[lastEvent.light]).azimuth = 3550

\* C31: the snapshot a command pushes is the state of the scene as the command's
\* handler left it: it is the snapshot of the scene after the step, that scene is
\* the handler's result, and after dollyCamera its camera distance is the
\* commanded distance clamped
C31_SnapshotShowsTheCommandsResult ==
  [][(handled("command") /\ lastEvent'.sent)
       => /\ lastSent' = getSceneState(Scene')
          /\ \A command \in CameraCommands :
               Command(command)
                 => /\ Scene' = commandHandlers(command, Scene).S
                    /\ (command.type = "dollyCamera")
                         => lastSent'.camera.distance
                              = Max(MIN_DISTANCE, Min(MAX_DISTANCE, command.distance.n))]_vars

\* a dollyCamera command asked for less than the nearest distance and the
\* snapshot it pushed shows the nearest distance, not the one before the command
C31_PushedTheClampedDistance ==
  /\ lastEvent.ev = "command" /\ lastEvent.sent /\ steps = MaxCameraEvents - 2
  /\ camera.distance = MIN_DISTANCE /\ lastSent.camera.distance = MIN_DISTANCE

\* C32: after a pointer-leave event neither a light drag nor a model drag is
\* active, whatever the mode and whichever of them was active before
C32_LeaveEndsEveryDrag ==
  [][handled("mouseleave") => (~isAreaLightDragging' /\ ~rotationController'.isDragging)]_vars

\* five events: a model drag began and turned the model, the pointer came over a
\* light, a press began a light drag there with the model drag still on, and the
\* pointer left; no drag is active
C32_LeftWithBothDragsOn ==
  /\ lastEvent.ev = "mouseleave" /\ steps = MaxPointerEvents - 5
  /\ isAreaLightMode /\ model.rotation # <<0, 0, 0>>
  /\ areaLightDragStartPosition # <<0, 0>>
  /\ ~isAreaLightDragging /\ ~rotationController.isDragging

\* C33: while a light drag is active every pointer move rotates the dragged light
\* by the pointer's offset from the previous position times the sensitivity
C33_EveryMoveRotatesDraggedLight ==
  [][(handled("mousemove") /\ isAreaLightDragging /\ dragLight # "none")
       => \A p \in PointerPositions, pick \in PickResults :
            MouseMove(p, pick)
              => lights'[dragLight]
                   = AreaLight_rotate(lights[dragLight],
                       (p[1] - areaLightDragStartPosition[1]) * AREA_LIGHT_ROTATION_SENSITIVITY,
                       (p[2] - areaLightDragStartPosition[2]) * AREA_LIGHT_ROTATION_SENSITIVITY)]_vars

\* C34: no pointer move changes both a light and the model rotation: a mouse move
\* applies at most one of the light rotation and the model drag update, and a
\* touch move never changes a light
C34_MoveTurnsOneRigAtMost ==
  [][/\ handled("mousemove")
          => /\ ~(lastEvent'.rotated # "none" /\ lastEvent'.modelUpdated)
             /\ lights' = lights \/ (model' = model /\ rotationController' = rotationController)
     /\ handled("touchmove1") => lights' = lights]_vars

\* with a light drag and a model drag both active, a move turned the light and
\* left the model drag alone
C34_TurnedLightWithBothDragsOn ==
  /\ lastEvent.ev = "mousemove" /\ lastEvent.rotated # "none" /\ ~lastEvent.modelUpdated
  /\ isAreaLightDragging /\ rotationController.isDragging
  /\ lights[lastEvent.rotated].rotY # 0

\* C35 as stated: whenever a light is the hover target, the ray through the pointer
\* hits that light's pick proxy
C35_HoverTargetIsUnderPointer ==
  currentHoveredAreaLight # "none" => underPointer = currentHoveredAreaLight

\* C35: after every pointer move the hover target is the light whose proxy the
\* ray cast by that move hit, drag or no drag, and the mode is the light mode
\* exactly if there is one; no other event re-evaluates the hover target or the
\* mode, so between two pointer moves they keep what the last move found
C35_HoverIsTheLastMovesPick ==
  [][/\ handled("mousemove")
          => \A p \in PointerPositions, pick \in PickResults :
               MouseMove(p, pick)
                 => /\ currentHoveredAreaLight' = (IF pick \in LightNames THEN pick ELSE "none")
                    /\ (currentMode' = AREA_LIGHT_MANIPULATION) <=> (pick \in LightNames)
                    /\ (lastEvent'.rotated = "none") => underPointer' = currentHoveredAreaLight'
     /\ ~handled("mousemove")
          => /\ currentHoveredAreaLight' = currentHoveredAreaLight
             /\ currentMode' = currentMode]_vars

\* a command moved the light under the pointer away from the ray: the light is
\* still the hover target and the mode is still the light mode
C35_CommandMovedHoveredLightAway ==
  /\ lastEvent.ev = "command" /\ lastEvent.outcome = "ok"
  /\ currentHoveredAreaLight = "key" /\ isAreaLightMode
  /\ underPointer = "none"

SwingCommands ==
  {c \in LightMoveCommands("Key") \cup LightMoveCommands("Fill") :
     c.type \in {"swing" \o K \o "Light" \o d : K \in {"Key", "Fill"}, d \in {"Up", "Left"}}}

\* no light's pivot-relative position changes in this step, nor what
\* getPositionSpherical returns for it, nor the position a snapshot shows for it
positionsKept ==
  /\ \A l \in LightNames :
       /\ lights'[l].pos = lights[l].pos
       /\ AreaLight_getPositionSpherical(lights'[l]) = AreaLight_getPositionSpherical(lights[l])
  /\ getSceneState(Scene').keyLight.position = getSceneState(Scene).keyLight.position
  /\ getSceneState(Scene').fillLight.position = getSceneState(Scene).fillLight.position

\* C36: a swing command and a pointer move of a light drag turn the rig frame of
\* their light and leave every light's pivot-relative position, its spherical
\* read-back and its position in the snapshot as they were
C36_RotateKeepsLocalPosition ==
  [][/\ handled("command")
          => \A command \in SwingCommands :
               Command(command)
                 => /\ positionsKept
                    /\ \E l \in LightNames :
                         <<lights'[l].rotX, lights'[l].rotY>> # <<lights[l].rotX, lights[l].rotY>>
     /\ (handled("mousemove") /\ lastEvent'.rotated # "none") => positionsKept]_vars

\* the key light was swung up and to the left, or dragged both ways, and reads
\* back the spherical position it started from
C36_SwungBothWays ==
  /\ lights["key"].rotX # 0 /\ lights["key"].rotY # 0
  /\ AreaLight_getPositionSpherical(lights["key"])
       = AreaLight_getPositionSpherical(InitialLights["key"])
  /\ lastEvent.ev \in {"command", "mousemove"}

DollyCommands ==
  {c \in CameraCommands : c.type \in {"dollyCamera", "dollyCameraIn", "dollyCameraOut"}}

\* C37: a distance commanded by dollyCamera, dollyCameraIn or dollyCameraOut after
\* a pinch start survives the next update of the gesture: whatever the touches of
\* that update, it moves the commanded distance by the pinch offset, and with the
\* touches as far apart as at the start it leaves the camera at the distance the
\* command's snapshot shows
C37_CommandedDistanceSurvivesPinch ==
  [][(handled("command") /\ camera.initialPinchDistance # 0)
       => \A command \in DollyCommands :
            Command(command)
              => \A t \in TouchPairs :
                   LET continued == updatePinchZoom(camera', t[1], t[2])
                   IN /\ continued.distance
                         = Max(MIN_DISTANCE,
                               Min(MAX_DISTANCE,
                                   camera'.distance
                                     + (camera'.initialPinchDistance - span(t))
                                         * PINCH_ZOOM_SENSITIVITY))
                      /\ (lastEvent'.sent /\ span(t) = camera'.initialPinchDistance)
                           => continued.distance = lastSent'.camera.distance]_vars

\* a direction that is neither a number, a recognized direction name nor a string
\* that parses as a number
unmatched(direction) ==
  /\ direction.t # "num"
  /\ directionToAzimuthAngle(direction) = Null
  /\ ~(direction.t = "str" /\ parseFloat(direction.s) # Null)

\* C38: moveTowardDirection called with a direction that is neither a number, a
\* recognized direction name nor a string that parses as a number returns
\* without an error and leaves the light's position and orientation as they were
C38_UnmatchedDirectionIsIgnored ==
  [][(calledOp = "moveTowardDirection" /\ unmatched(lastEvent'.op[2]))
       => /\ lastEvent'.outcome = "returned"
          /\ lights' = lights]_vars

\* C39: while init has not run to its end no command and no pointer, wheel or
\* touch event is handled, no channel client exists, no listener is registered
\* and the render loop is not running; a failed asset load rejects init, and
\* after it nothing happens any more: no retry, no channel, no listeners, no loop
C39_NothingRunsBeforeTheLoad ==
  [][/\ (app.phase # "running")
          => (steps' = steps /\ lastEvent' = lastEvent /\ Scene' = Scene)
     /\ (app'.phase # "running")
          => (~wsClient' /\ ~connected' /\ ~app'.listening /\ ~app'.animating)
     /\ (app'.phase = "failed") => app'.rejected
     /\ (app.phase = "failed") => UNCHANGED vars]_vars

\* the asset load failed: init is rejected, no event was handled, nothing runs
C39_LoadFailedNothingStarted ==
  /\ app.phase = "failed" /\ app.rejected
  /\ steps = MaxEventsAfterInit /\ lastEvent.ev = "init"
  /\ ~wsClient /\ ~app.listening /\ ~app.animating

====
